---- MODULE Spec2Model ----
(***************************************************************************)
(* Model of github.com/ninepeach/ark: the size-classed allocator (package  *)
(* alloc), the growable buffer built on it (package buffer) and the file   *)
(* logger (package logger).                                                *)
(*                                                                         *)
(* Memory is a heap of backing arrays ("regions").  A Go slice is a        *)
(* triple (region, offset, length); its capacity is the region's capacity  *)
(* minus the offset.  A region's bytes are kept as the prefix up to the    *)
(* last nonzero byte: make() returns zero-filled memory, so the tail that  *)
(* is not stored is zero.                                                  *)
(***************************************************************************)
EXTENDS Integers, Sequences, FiniteSets, Bags, TLC

VARIABLES heap, pools, bufs, ext, pending, nw, held, pc, loc, ret,
          fl, disk, clock, mu, lpc, larg, lhist

\* the variables of the allocator and the buffers, and those of the logger
bvars == <<heap, pools, bufs, ext, pending, nw, held, pc, loc, ret>>

lvars == <<fl, disk, clock, mu, lpc, larg, lhist>>

vars == <<bvars, lvars>>

(***************************************************************************)
(* Program constants.                                                      *)
(***************************************************************************)
maxBits == 16

MaxSize == 65536

DefaultSize == 32768

(***************************************************************************)
(* Bounds of the model.                                                    *)
(***************************************************************************)
\* number of backing arrays alive at once
MaxRegions == 2

\* longest argument of one Write / Extend / Read / ReadBytes / To call, and
\* the furthest a caller cuts the front off a slice
MaxLen == 2

\* bytes stored into, or reserved by Extend in, buffers in one run
MaxWritten == 4

Threads == {1, 2}

BufIds == {1, 2}

(***************************************************************************)
(* Slices and regions.                                                     *)
(***************************************************************************)
NilSlice == [reg |-> 0, off |-> 0, len |-> 0]

\* cap(s)
SliceCap(h, s) == IF s.reg = 0 THEN 0 ELSE h[s.reg].cap - s.off

\* the byte at absolute index i (0-based) of a region's memory
Load(mem, i) == IF i + 1 <= Len(mem) THEN mem[i + 1] ELSE 0

RECURSIVE Trim(_)
Trim(mem) ==
    IF mem = <<>> THEN mem
    ELSE IF mem[Len(mem)] = 0 THEN Trim(SubSeq(mem, 1, Len(mem) - 1))
    ELSE mem

\* mem with the bytes of seq stored at absolute indexes i, i+1, ...
StoreSeq(mem, i, seq) ==
    LET hi == IF i + Len(seq) > Len(mem) THEN i + Len(seq) ELSE Len(mem)
    IN  Trim([k \in 1..hi |->
                IF k - 1 >= i /\ k - 1 < i + Len(seq) THEN seq[k - i]
                ELSE Load(mem, k - 1)])

\* the bytes of region r at absolute indexes lo .. hi-1
LoadSeq(h, r, lo, hi) ==
    IF hi <= lo THEN <<>>
    ELSE IF r = 0 THEN [k \in 1..(hi - lo) |-> 0]
    ELSE [k \in 1..(hi - lo) |-> Load(h[r].mem, lo + k - 1)]

\* a slot of the heap that holds no array
Free == [cap |-> -1, mem |-> <<>>]

\* the slots that hold no array
FreeSlots(h) == {r \in DOMAIN h : h[r] = Free}

HasRoom(h) == FreeSlots(h) # {}

\* make([]byte, n): a fresh zero-filled array, in the first free slot, and
\* the slice of all of it (callers check HasRoom)
Make(h, n) ==
    LET id == IF HasRoom(h)
              THEN CHOOSE r \in FreeSlots(h) : \A q \in FreeSlots(h) : r <= q
              ELSE 0
    IN  [heap |-> IF id = 0 THEN h
                  ELSE [h EXCEPT ![id] = [cap |-> n, mem |-> <<>>]],
         out  |-> [reg |-> id, off |-> 0, len |-> n]]

\* the garbage collector: an array no slice refers to any more is freed
Collect(h, roots) == [r \in DOMAIN h |-> IF r \in roots THEN h[r] ELSE Free]

(***************************************************************************)
(* package alloc                                                           *)
(***************************************************************************)
RECURSIVE bitsLen(_)
bitsLen(x) == IF x = 0 THEN 0 ELSE 1 + bitsLen(x \div 2)

RECURSIVE BitAnd(_, _)
BitAnd(a, b) ==
    IF a = 0 \/ b = 0 THEN 0
    ELSE (a % 2) * (b % 2) + 2 * BitAnd(a \div 2, b \div 2)

\* msb off by one: the number of bits rather than the highest bit
msbBits(size) == IF size <= 0 THEN 0 ELSE bitsLen(size)

msb(size) == IF size <= 0 THEN 0 ELSE bitsLen(size) - 1

\* The pools of an allocator are kept as one bag of entries (idx, s): slice
\* s lies in the pool of class idx.  A new allocator: maxBits+1 empty pools.
NewAllocator == EmptyBag

\* the items of the pool of class idx
PoolItems(pl, idx) == {e.s : e \in {x \in BagToSet(pl) : x.idx = idx}}

\* sync.Pool.New of class idx
PoolNew(h, idx) == Make(h, 2 ^ idx)

\* a pool that hands an item out and keeps it
PoolGetKeep(pl, h, idx, pick) ==
    IF pick = NilSlice
    THEN LET m == PoolNew(h, idx)
         IN  [pools |-> pl, heap |-> m.heap, out |-> m.out]
    ELSE [pools |-> pl, heap |-> h, out |-> pick]

\* sync.Pool.Get on class idx: pick is an item of the pool, which is
\* removed and returned, or NilSlice when the pool misses and calls New.
PoolGet(pl, h, idx, pick) ==
    IF pick = NilSlice
    THEN LET m == PoolNew(h, idx)
         IN  [pools |-> pl, heap |-> m.heap, out |-> m.out]
    ELSE [pools |-> pl (-) SetToBag({[idx |-> idx, s |-> pick]}),
          heap  |-> h,
          out   |-> pick]

\* what sync.Pool.Get on class idx may return
PoolPicks(pl, idx) == PoolItems(pl, idx) \cup {NilSlice}

\* sync.Pool.Put
PoolPut(pl, idx, buf) == pl (+) SetToBag({[idx |-> idx, s |-> buf]})

\* Get without its check of the size
GetIdxUnchecked(size) ==
    LET idx0 == msb(size)
        idx  == IF size # 2 ^ idx0 THEN idx0 + 1 ELSE idx0
    IN  IF idx < 0 \/ idx >= maxBits + 1 THEN -1 ELSE idx

\* the class index Get computes for a servable size, -1 when it returns nil
GetIdx(size) ==
    IF size <= 0 \/ size > MaxSize THEN -1
    ELSE LET idx0 == msb(size)
             idx  == IF size # 2 ^ idx0 THEN idx0 + 1 ELSE idx0
         IN  IF idx < 0 \/ idx >= maxBits + 1 THEN -1 ELSE idx

\* the slice left at its full length
ResliceWhole(h, buf, size) == [out |-> buf, panic |-> FALSE]

\* buf[:size]
Reslice(h, buf, size) ==
    [out |-> [buf EXCEPT !.len = size], panic |-> size > SliceCap(h, buf)]

\* Allocator.Get
Get(pl, h, size, pick) ==
    LET idx == GetIdx(size)
    IN  IF idx = -1
        THEN [pools |-> pl, heap |-> h, out |-> NilSlice, panic |-> FALSE]
        ELSE LET g == PoolGet(pl, h, idx, pick)
                 s == Reslice(g.heap, g.out, size)
             IN  [pools |-> g.pools, heap |-> g.heap,
                  out |-> s.out, panic |-> s.panic]

\* Put without its check that the capacity is a power of two
PutCheckNoPow2(h, buf) ==
    LET c == SliceCap(h, buf)
    IN  IF buf = NilSlice
        THEN [err |-> "nil", idx |-> -1, buf |-> buf]
        ELSE IF c <= 0 \/ c > MaxSize
        THEN [err |-> "size", idx |-> -1, buf |-> buf]
        ELSE IF msb(c) < 0 \/ msb(c) >= maxBits + 1
        THEN [err |-> "index", idx |-> -1, buf |-> buf]
        ELSE [err |-> "", idx |-> msb(c), buf |-> [buf EXCEPT !.len = c]]

\* the validation of Allocator.Put: the error, or the class and the slice
\* with its length reset to the capacity
PutCheck(h, buf) ==
    LET c == SliceCap(h, buf)
    IN  IF buf = NilSlice
        THEN [err |-> "nil", idx |-> -1, buf |-> buf]
        ELSE IF c <= 0 \/ c > MaxSize
        THEN [err |-> "size", idx |-> -1, buf |-> buf]
        ELSE IF BitAnd(c, c - 1) # 0
        THEN [err |-> "pow2", idx |-> -1, buf |-> buf]
        ELSE IF msb(c) < 0 \/ msb(c) >= maxBits + 1
        THEN [err |-> "index", idx |-> -1, buf |-> buf]
        ELSE [err |-> "", idx |-> msb(c), buf |-> [buf EXCEPT !.len = c]]

\* Allocator.Put
Put(pl, h, buf) ==
    LET v == PutCheck(h, buf)
    IN  IF v.err # "" THEN [pools |-> pl, err |-> v.err]
        ELSE [pools |-> PoolPut(pl, v.idx, v.buf), err |-> ""]

(***************************************************************************)
(* ret is the last call of a thread to the allocator: the operation and    *)
(* the thread; the size Get was asked for or the class Put chose; the      *)
(* error or "panic"; the slice passed to Put or picked by Get, and the     *)
(* slice returned by Get or deposited by Put.                              *)
(***************************************************************************)
NoRet == [op |-> "", who |-> 0, n |-> 0, err |-> "",
          buf |-> NilSlice, out |-> NilSlice]

NoLoc == [idx |-> -1, size |-> 0, buf |-> NilSlice]

\* no slice from Extend is waiting to be filled
NoExt == [reg |-> 0, off |-> 0, len |-> 0, base |-> 0]

NilBuf == [data |-> NilSlice, start |-> 0, end |-> 0, pooled |-> FALSE,
           live |-> FALSE]

\* the arrays some slice of the program refers to
Roots(bf, pl, hd, lc, ex) ==
    {bf[b].data.reg : b \in DOMAIN bf}
    \cup {ex[b].reg : b \in DOMAIN ex}
    \cup {hd[t].reg : t \in DOMAIN hd}
    \cup {lc[t].buf.reg : t \in DOMAIN lc}
    \cup {e.s.reg : e \in BagToSet(pl)}

\* the heap after a step that leaves h: what is unreachable is collected
SetHeap(h) == heap' = Collect(h, Roots(bufs', pools', held', loc', ext'))

(***************************************************************************)
(* package buffer                                                          *)
(***************************************************************************)
Min(a, b) == IF a <= b THEN a ELSE b

\* the zero value Buffer{}
ZeroBuffer == [data |-> NilSlice, start |-> 0, end |-> 0, pooled |-> FALSE,
               live |-> TRUE]

\* copy(dst, src): the heap afterwards and the number of bytes copied
Copy(h, dst, src) ==
    LET n == Min(dst.len, Len(src))
    IN  [heap |-> IF n = 0 \/ dst.reg = 0 THEN h
                  ELSE [h EXCEPT ![dst.reg].mem =
                            StoreSeq(@, dst.off, SubSeq(src, 1, n))],
         n |-> n]

\* s[lo:]
SliceFrom(s, lo) == [reg |-> s.reg, off |-> s.off + lo, len |-> s.len - lo]

\* s[lo:hi]
SubSlice(s, lo, hi) == [reg |-> s.reg, off |-> s.off + lo, len |-> hi - lo]

\* Buffer.Len
BLen(b) == b.end - b.start

\* Buffer.Cap
BCap(b) == b.data.len

\* Buffer.IsEmpty
IsEmpty(b) == BLen(b) = 0

\* Buffer.Bytes: the bytes of data[start:end]
Bytes(b, h) ==
    LoadSeq(h, b.data.reg, b.data.off + b.start, b.data.off + b.end)

\* NewSize that keeps the slice of the pool at its full length
NewSizeWhole(pl, h, size0, pick) ==
    LET size == IF size0 < 0 THEN 0 ELSE size0
    IN  IF size = 0
        THEN [buf |-> ZeroBuffer, pools |-> pl, heap |-> h]
        ELSE LET g == Get(pl, h, size, pick)
             IN  IF g.out # NilSlice
                 THEN [buf   |-> [ZeroBuffer EXCEPT
                                     !.data = [g.out EXCEPT !.len =
                                                  SliceCap(g.heap, g.out)],
                                     !.pooled = TRUE],
                       pools |-> g.pools,
                       heap  |-> g.heap]
                 ELSE LET m == Make(h, size)
                      IN  [buf   |-> [ZeroBuffer EXCEPT !.data = m.out],
                           pools |-> pl,
                           heap  |-> m.heap]

\* NewSize
NewSize(pl, h, size0, pick) ==
    LET size == IF size0 < 0 THEN 0 ELSE size0
    IN  IF size = 0
        THEN [buf |-> ZeroBuffer, pools |-> pl, heap |-> h]
        ELSE LET g == Get(pl, h, size, pick)
             IN  IF g.out # NilSlice
                 THEN [buf   |-> [ZeroBuffer EXCEPT
                                     !.data = Reslice(g.heap, g.out, size).out,
                                     !.pooled = TRUE],
                       pools |-> g.pools,
                       heap  |-> g.heap]
                 ELSE LET m == Make(h, size)
                      IN  [buf   |-> [ZeroBuffer EXCEPT !.data = m.out],
                           pools |-> pl,
                           heap  |-> m.heap]

\* New
New(pl, h, pick) == NewSize(pl, h, DefaultSize, pick)

\* FromBytes
FromBytes(s) ==
    [data |-> s, start |-> 0, end |-> s.len, pooled |-> FALSE, live |-> TRUE]

\* Reset that gives the array up as Release does
ResetFree(b) == ZeroBuffer

\* Buffer.Reset
Reset(b) == [b EXCEPT !.start = 0, !.end = 0]

\* grow that leaves the pooled flag set when it replaces the array
growKeepPooled(b, h, n) ==
    IF n <= 0 \/ b.data.len - b.end >= n
    THEN [buf |-> b, heap |-> h, how |-> "none"]
    ELSE LET cmp == b.start > 0 /\ BLen(b) > 0
             h1  == IF cmp THEN Copy(h, b.data, Bytes(b, h)).heap ELSE h
             b1  == IF cmp THEN [b EXCEPT !.end = BLen(b), !.start = 0]
                    ELSE b
         IN  IF cmp /\ b1.data.len - b1.end >= n
             THEN [buf |-> b1, heap |-> h1, how |-> "compact"]
             ELSE LET curLen == BLen(b1)
                      newCap == IF curLen + n < b1.data.len * 2
                                THEN b1.data.len * 2 ELSE curLen + n
                      m  == Make(h1, newCap)
                      h2 == IF curLen > 0
                            THEN Copy(m.heap, m.out, Bytes(b1, h1)).heap
                            ELSE m.heap
                  IN  [buf  |-> [b1 EXCEPT !.data = m.out, !.start = 0,
                                           !.end = curLen],
                       heap |-> h2,
                       how  |-> "realloc"]

\* grow that allocates the bigger array and leaves the content behind
growNoCopy(b, h, n) ==
    IF n <= 0 \/ b.data.len - b.end >= n
    THEN [buf |-> b, heap |-> h, how |-> "none"]
    ELSE LET cmp == b.start > 0 /\ BLen(b) > 0
             h1  == IF cmp THEN Copy(h, b.data, Bytes(b, h)).heap ELSE h
             b1  == IF cmp THEN [b EXCEPT !.end = BLen(b), !.start = 0]
                    ELSE b
         IN  IF cmp /\ b1.data.len - b1.end >= n
             THEN [buf |-> b1, heap |-> h1, how |-> "compact"]
             ELSE LET curLen == BLen(b1)
                      newCap == IF curLen + n < b1.data.len * 2
                                THEN b1.data.len * 2 ELSE curLen + n
                      m == Make(h1, newCap)
                  IN  [buf  |-> [b1 EXCEPT !.data = m.out, !.start = 0,
                                           !.end = curLen, !.pooled = FALSE],
                       heap |-> m.heap,
                       how  |-> "realloc"]

\* grow that allocates a new array without trying to compact
growNoCompact(b, h, n) ==
    IF n <= 0 \/ b.data.len - b.end >= n
    THEN [buf |-> b, heap |-> h, how |-> "none"]
    ELSE LET curLen  == BLen(b)
             newCap0 == curLen + n
             newCap  == IF newCap0 < b.data.len * 2
                        THEN b.data.len * 2 ELSE newCap0
             m  == Make(h, newCap)
             h2 == IF curLen > 0
                   THEN Copy(m.heap, m.out, Bytes(b, h)).heap
                   ELSE m.heap
         IN  [buf  |-> [b EXCEPT !.data = m.out, !.start = 0,
                                 !.end = curLen, !.pooled = FALSE],
              heap |-> h2,
              how  |-> "realloc"]

\* grow that allocates just what is asked for, without doubling
growExact(b, h, n) ==
    IF n <= 0 \/ b.data.len - b.end >= n
    THEN [buf |-> b, heap |-> h, how |-> "none"]
    ELSE LET cmp == b.start > 0 /\ BLen(b) > 0
             h1  == IF cmp THEN Copy(h, b.data, Bytes(b, h)).heap ELSE h
             b1  == IF cmp THEN [b EXCEPT !.end = BLen(b), !.start = 0]
                    ELSE b
         IN  IF cmp /\ b1.data.len - b1.end >= n
             THEN [buf |-> b1, heap |-> h1, how |-> "compact"]
             ELSE LET curLen == BLen(b1)
                      m  == Make(h1, curLen + n)
                      h2 == IF curLen > 0
                            THEN Copy(m.heap, m.out, Bytes(b1, h1)).heap
                            ELSE m.heap
                  IN  [buf  |-> [b1 EXCEPT !.data = m.out, !.start = 0,
                                           !.end = curLen, !.pooled = FALSE],
                       heap |-> h2,
                       how  |-> "realloc"]

\* Buffer.grow: how is "none" (enough room or n <= 0), "compact" or
\* "realloc"
grow(b, h, n) ==
    IF n <= 0 \/ b.data.len - b.end >= n
    THEN [buf |-> b, heap |-> h, how |-> "none"]
    ELSE LET cmp == b.start > 0 /\ BLen(b) > 0
             h1  == IF cmp THEN Copy(h, b.data, Bytes(b, h)).heap ELSE h
             b1  == IF cmp THEN [b EXCEPT !.end = BLen(b), !.start = 0]
                    ELSE b
         IN  IF cmp /\ b1.data.len - b1.end >= n
             THEN [buf |-> b1, heap |-> h1, how |-> "compact"]
             ELSE LET curLen  == BLen(b1)
                      newCap0 == curLen + n
                      newCap1 == IF newCap0 < b1.data.len * 2
                                 THEN b1.data.len * 2 ELSE newCap0
                      newCap  == IF newCap0 < b1.data.len * 2 /\ newCap1 = 0
                                 THEN n ELSE newCap1
                      m  == Make(h1, newCap)
                      h2 == IF curLen > 0
                            THEN Copy(m.heap, m.out, Bytes(b1, h1)).heap
                            ELSE m.heap
                  IN  [buf  |-> [b1 EXCEPT !.data = m.out, !.start = 0,
                                           !.end = curLen, !.pooled = FALSE],
                       heap |-> h2,
                       how  |-> "realloc"]

\* Extend that returns the slice of the array it had before it grew
ExtendStale(b, h, n) ==
    IF n < 0
    THEN [buf |-> b, heap |-> h, out |-> NilSlice, panic |-> TRUE,
          how |-> ""]
    ELSE LET g == grow(b, h, n)
             start == g.buf.end
             b1 == [g.buf EXCEPT !.end = @ + n]
         IN  [buf |-> b1, heap |-> g.heap,
              out |-> SubSlice(b.data, start, b1.end),
              panic |-> FALSE,
              how |-> g.how]

\* Buffer.Extend
Extend(b, h, n) ==
    IF n < 0
    THEN [buf |-> b, heap |-> h, out |-> NilSlice, panic |-> TRUE,
          how |-> ""]
    ELSE LET g == grow(b, h, n)
             start == g.buf.end
             b1 == [g.buf EXCEPT !.end = @ + n]
         IN  [buf |-> b1, heap |-> g.heap,
              out |-> SubSlice(b1.data, start, b1.end),
              panic |-> b1.end > SliceCap(g.heap, b1.data),
              how |-> g.how]

\* Write that copies into the room there is and does not grow
WriteNoGrow(b, h, p) ==
    IF Len(p) = 0
    THEN [buf |-> b, heap |-> h, n |-> 0, how |-> ""]
    ELSE LET c == Copy(h, SliceFrom(b.data, b.end), p)
         IN  [buf |-> [b EXCEPT !.end = @ + c.n], heap |-> c.heap,
              n |-> c.n, how |-> "none"]

\* Buffer.Write
Write(b, h, p) ==
    IF Len(p) = 0
    THEN [buf |-> b, heap |-> h, n |-> 0, how |-> ""]
    ELSE LET g == grow(b, h, Len(p))
             c == Copy(g.heap, SliceFrom(g.buf.data, g.buf.end), p)
         IN  [buf |-> [g.buf EXCEPT !.end = @ + c.n], heap |-> c.heap,
              n |-> c.n, how |-> g.how]

\* Buffer.WriteByte
WriteByte(b, h, c) ==
    LET g == grow(b, h, 1)
    IN  IF g.buf.end >= g.buf.data.len
        THEN [buf |-> g.buf, heap |-> g.heap, panic |-> TRUE, how |-> g.how]
        ELSE [buf  |-> [g.buf EXCEPT !.end = @ + 1],
              heap |-> Copy(g.heap, SubSlice(g.buf.data, g.buf.end,
                                             g.buf.end + 1), <<c>>).heap,
              panic |-> FALSE,
              how |-> g.how]

\* cursors that stay where the last read left them
DrainedNever(b) == b

\* the reset of the cursors once everything is consumed
Drained(b) == IF b.start = b.end THEN [b EXCEPT !.start = 0, !.end = 0] ELSE b

\* Read that reports no error on a buffer with nothing to read
ReadNoEOF(b, h, plen) ==
    LET n == Min(plen, BLen(b))
    IN  [buf |-> Drained([b EXCEPT !.start = @ + n]),
         n   |-> n,
         val |-> SubSeq(Bytes(b, h), 1, n),
         err |-> ""]

\* Buffer.Read into a destination of length plen
Read(b, h, plen) ==
    IF IsEmpty(b)
    THEN [buf |-> b, n |-> 0, val |-> <<>>, err |-> "EOF"]
    ELSE LET n == Min(plen, BLen(b))
         IN  [buf |-> Drained([b EXCEPT !.start = @ + n]),
              n   |-> n,
              val |-> SubSeq(Bytes(b, h), 1, n),
              err |-> ""]

\* Buffer.ReadByte
ReadByte(b, h) ==
    IF IsEmpty(b)
    THEN [buf |-> b, val |-> <<>>, err |-> "EOF"]
    ELSE [buf |-> Drained([b EXCEPT !.start = @ + 1]),
          val |-> LoadSeq(h, b.data.reg, b.data.off + b.start,
                          b.data.off + b.start + 1),
          err |-> ""]

\* To that consumes the bytes it returns, as Read does
ToConsume(b, n) ==
    IF n <= 0 THEN [buf |-> b, out |-> NilSlice]
    ELSE LET k == Min(n, BLen(b))
         IN  [buf |-> Drained([b EXCEPT !.start = @ + k]),
              out |-> SubSlice(b.data, b.start, b.start + k)]

\* Buffer.To: the buffer afterwards and the slice returned
To(b, n) ==
    IF n <= 0 THEN [buf |-> b, out |-> NilSlice]
    ELSE [buf |-> b,
          out |-> SubSlice(b.data, b.start, b.start + Min(n, BLen(b)))]

\* ReadBytes without its check that n bytes are there
ReadBytesUnchecked(b, h, n) ==
    IF n < 0
    THEN [buf |-> b, val |-> <<>>, err |-> "negative length",
          panic |-> FALSE]
    ELSE [buf |-> Drained([b EXCEPT !.start = @ + n]),
          val |-> LoadSeq(h, b.data.reg, b.data.off + b.start,
                          b.data.off + b.start + n),
          err |-> "", panic |-> FALSE]

\* ReadBytes that hands out what there is when fewer than n bytes are there
ReadBytesShort(b, h, n) ==
    IF n < 0
    THEN [buf |-> b, val |-> <<>>, err |-> "negative length",
          panic |-> FALSE]
    ELSE LET k == Min(n, BLen(b))
         IN  [buf |-> Drained([b EXCEPT !.start = @ + k]),
              val |-> SubSeq(Bytes(b, h), 1, k),
              err |-> "", panic |-> FALSE]

\* Buffer.ReadBytes: err is the error returned; panic says that the call
\* does not return
ReadBytes(b, h, n) ==
    IF n < 0
    THEN [buf |-> b, val |-> <<>>, err |-> "negative length",
          panic |-> FALSE]
    ELSE IF BLen(b) < n
    THEN [buf |-> b, val |-> <<>>, err |-> "EOF", panic |-> FALSE]
    ELSE [buf |-> Drained([b EXCEPT !.start = @ + n]),
          val |-> SubSeq(Bytes(b, h), 1, n),
          err |-> "", panic |-> FALSE]

\* Release that Puts the array whether or not it came from the pool
ReleaseAlways(b, pl, h) ==
    IF ~b.live
    THEN [buf |-> b, pools |-> pl, puts |-> 0, err |-> ""]
    ELSE LET r == Put(pl, h, b.data)
         IN  [buf |-> ZeroBuffer, pools |-> r.pools, puts |-> 1,
              err |-> r.err]

\* Release that Puts the array and keeps it as the data of the buffer
ReleaseKeep(b, pl, h) ==
    IF ~b.live
    THEN [buf |-> b, pools |-> pl, puts |-> 0, err |-> ""]
    ELSE IF b.pooled /\ b.data # NilSlice
    THEN LET r == Put(pl, h, b.data)
         IN  [buf |-> b, pools |-> r.pools, puts |-> 1, err |-> r.err]
    ELSE [buf |-> ZeroBuffer, pools |-> pl, puts |-> 0, err |-> ""]

\* Buffer.Release: puts is the number of calls of alloc.Put
Release(b, pl, h) ==
    IF ~b.live
    THEN [buf |-> b, pools |-> pl, puts |-> 0, err |-> ""]
    ELSE IF b.pooled /\ b.data # NilSlice
    THEN LET r == Put(pl, h, b.data)
         IN  [buf |-> ZeroBuffer, pools |-> r.pools, puts |-> 1,
              err |-> r.err]
    ELSE [buf |-> ZeroBuffer, pools |-> pl, puts |-> 0, err |-> ""]

(***************************************************************************)
(* Callers of the allocator: each thread holds at most one slice and runs  *)
(* Allocator.Get and Allocator.Put; the accesses to a sync.Pool are the    *)
(* atomic steps.                                                           *)
(***************************************************************************)
GetSizes == {-1, 0, 1, 2, 3, 4, MaxSize, MaxSize + 1}

MakeSizes == {0, 3, 4, MaxSize, MaxSize + 1}

\* the sizes of the callers that run concurrently: one class under contention
ConcSizes == {3, 4}

\* a caller allocates a slice of its own (alloc_test.go: make([]byte, n))
CallerMake(t, n) ==
    /\ pc[t] = "idle"
    /\ HasRoom(Collect(heap, Roots(bufs, pools, [held EXCEPT ![t] = NilSlice],
                                   loc, ext)))
    /\ LET h0 == Collect(heap, Roots(bufs, pools,
                                     [held EXCEPT ![t] = NilSlice], loc, ext))
           m  == Make(h0, n)
       IN  /\ held' = [held EXCEPT ![t] = m.out]
           /\ ret' = [NoRet EXCEPT !.op = "make", !.who = t, !.n = n]
           /\ UNCHANGED <<pools, bufs, ext, pending, nw, pc, loc>>
           /\ UNCHANGED lvars
           /\ SetHeap(m.heap)

\* a caller keeps the tail s[k:] of a slice it holds whole
CallerReslice(t, k) ==
    /\ pc[t] = "idle"
    /\ held[t] # NilSlice
    /\ held[t].off = 0
    /\ k <= held[t].len
    /\ held' = [held EXCEPT ![t] = SliceFrom(@, k)]
    /\ ret' = [NoRet EXCEPT !.op = "reslice", !.who = t, !.n = k,
                            !.out = SliceFrom(held[t], k)]
    /\ UNCHANGED <<pools, bufs, ext, pending, nw, pc, loc>>
    /\ UNCHANGED lvars
    /\ SetHeap(heap)

\* sync.Pool may drop an item it holds at any time
PoolDrop ==
    /\ \E e \in BagToSet(pools) :
          pools' = pools (-) SetToBag({e})
    /\ ret' = [NoRet EXCEPT !.op = "drop"]
    /\ UNCHANGED <<bufs, ext, pending, nw, held, pc, loc>>
    /\ UNCHANGED lvars
    /\ SetHeap(heap)

\* Allocator.Get up to the access to the pool
GetCall(t, size) ==
    /\ pc[t] = "idle"
    /\ LET idx == GetIdx(size)
       IN  IF idx = -1
           THEN /\ ret' = [NoRet EXCEPT !.op = "Get", !.who = t,
                                        !.n = size]
                /\ held' = [held EXCEPT ![t] = NilSlice]
                /\ UNCHANGED <<pc, loc>>
           ELSE /\ pc' = [pc EXCEPT ![t] = "get"]
                /\ loc' = [loc EXCEPT ![t] = [NoLoc EXCEPT !.idx = idx,
                                                           !.size = size]]
                /\ ret' = [NoRet EXCEPT !.op = "GetCall", !.who = t,
                                        !.n = size]
                /\ held' = [held EXCEPT ![t] = NilSlice]
    /\ UNCHANGED <<pools, bufs, ext, pending, nw>>
    /\ UNCHANGED lvars
    /\ SetHeap(heap)

\* Allocator.Get: the access to the pool and the return
GetPool(t) ==
    /\ pc[t] = "get"
    /\ \E pick \in PoolPicks(pools, loc[t].idx) :
          /\ pick = NilSlice => HasRoom(heap)
          /\ LET g == PoolGet(pools, heap, loc[t].idx, pick)
                 s == Reslice(g.heap, g.out, loc[t].size)
             IN  /\ pools' = g.pools
                 /\ held' = [held EXCEPT ![t] = s.out]
                 /\ ret' = [NoRet EXCEPT !.op = "Get", !.who = t,
                                         !.n = loc[t].size, !.buf = pick,
                                         !.out = s.out,
                                         !.err = IF s.panic THEN "panic"
                                                 ELSE ""]
                 /\ pc' = [pc EXCEPT ![t] = "idle"]
                 /\ loc' = [loc EXCEPT ![t] = NoLoc]
                 /\ UNCHANGED <<bufs, ext, pending, nw>>
                 /\ UNCHANGED lvars
                 /\ SetHeap(g.heap)

\* Allocator.Put of the slice the thread holds, up to the access to the pool
PutCall(t) ==
    /\ pc[t] = "idle"
    /\ LET v == PutCheck(heap, held[t])
       IN  IF v.err # ""
           THEN /\ ret' = [NoRet EXCEPT !.op = "Put", !.who = t,
                                        !.buf = held[t], !.err = v.err]
                /\ held' = [held EXCEPT ![t] = NilSlice]
                /\ UNCHANGED <<pc, loc>>
           ELSE /\ pc' = [pc EXCEPT ![t] = "put"]
                /\ loc' = [loc EXCEPT ![t] = [NoLoc EXCEPT !.idx = v.idx,
                                                           !.buf = v.buf]]
                /\ ret' = [NoRet EXCEPT !.op = "PutCall", !.who = t,
                                        !.buf = held[t]]
                /\ UNCHANGED held
    /\ UNCHANGED <<pools, bufs, ext, pending, nw>>
    /\ UNCHANGED lvars
    /\ SetHeap(heap)

\* Allocator.Put: the deposit and the return
PutPool(t) ==
    /\ pc[t] = "put"
    /\ pools' = PoolPut(pools, loc[t].idx, loc[t].buf)
    /\ held' = [held EXCEPT ![t] = NilSlice]
    /\ ret' = [NoRet EXCEPT !.op = "Put", !.who = t, !.buf = held[t],
                            !.out = loc[t].buf, !.n = loc[t].idx]
    /\ pc' = [pc EXCEPT ![t] = "idle"]
    /\ loc' = [loc EXCEPT ![t] = NoLoc]
    /\ UNCHANGED <<bufs, ext, pending, nw>>
    /\ UNCHANGED lvars
    /\ SetHeap(heap)

(***************************************************************************)
(* Users of buffers.  pending[b] is what buffer b owes its reader: the     *)
(* bytes stored into it (by the constructor, Write, WriteByte, or Extend   *)
(* and the caller's fill) that no read has returned yet, oldest first; a   *)
(* read of k bytes takes the k oldest off it.  ext[b] is the slice the     *)
(* last Extend returned, which its caller may fill before it calls the     *)
(* buffer again.                                                           *)
(***************************************************************************)
NewSizes == {-1, 0, 3, MaxSize + 1}

\* The code never looks at the value of a byte it stores or returns, so the
\* bytes of a run are told apart by numbering them: the k-th byte stored in
\* the run is k, and 0 is a byte of a fresh array that nobody stored.  A
\* byte that turns up at the wrong place, twice, or from a previous use of
\* an array is then always a wrong value.
Payload(n) == [i \in 1..n |-> nw + i]

\* seq without its first k elements
Drop(seq, k) == SubSeq(seq, k + 1, Len(seq))

\* buffer b starts again with content
Fresh(b, content) ==
    /\ pending' = [pending EXCEPT ![b] = content]
    /\ ext' = [ext EXCEPT ![b] = NoExt]

\* the heap once buffer b is given up for a new one
Dropped(b) ==
    Collect(heap, Roots([bufs EXCEPT ![b] = NilBuf], pools, held, loc,
                        [ext EXCEPT ![b] = NoExt]))

DoNewSize(b, size) ==
    \E pick \in (IF GetIdx(size) = -1 THEN {NilSlice}
                 ELSE PoolPicks(pools, GetIdx(size))) :
       LET h0 == Dropped(b)
           r  == NewSize(pools, h0, size, pick)
       IN  /\ (pick = NilSlice /\ size > 0) => HasRoom(h0)
           /\ bufs' = [bufs EXCEPT ![b] = r.buf]
           /\ pools' = r.pools
           /\ UNCHANGED ret
           /\ Fresh(b, <<>>)
           /\ UNCHANGED <<nw, held, pc, loc>>
           /\ UNCHANGED lvars
           /\ SetHeap(r.heap)

DoNew(b) ==
    \E pick \in PoolPicks(pools, GetIdx(DefaultSize)) :
       LET h0 == Dropped(b)
           r  == New(pools, h0, pick)
       IN  /\ pick = NilSlice => HasRoom(h0)
           /\ bufs' = [bufs EXCEPT ![b] = r.buf]
           /\ pools' = r.pools
           /\ UNCHANGED ret
           /\ Fresh(b, <<>>)
           /\ UNCHANGED <<nw, held, pc, loc>>
           /\ UNCHANGED lvars
           /\ SetHeap(r.heap)

\* FromBytes on a slice the caller made and filled with p
DoFromBytes(b, n) ==
    LET p  == Payload(n)
        h0 == Dropped(b)
        m  == Make(h0, Len(p))
        c  == Copy(m.heap, m.out, p)
    IN  /\ nw + n <= MaxWritten
        /\ HasRoom(h0)
        /\ nw' = nw + n
        /\ bufs' = [bufs EXCEPT ![b] = FromBytes(m.out)]
        /\ UNCHANGED ret
        /\ Fresh(b, p)
        /\ UNCHANGED <<pools, held, pc, loc>>
        /\ UNCHANGED lvars
        /\ SetHeap(c.heap)

DoReset(b) ==
    /\ bufs[b].live
    /\ bufs' = [bufs EXCEPT ![b] = Reset(@)]
    /\ UNCHANGED ret
    /\ Fresh(b, <<>>)
    /\ UNCHANGED <<nw, pools, held, pc, loc>>
    /\ UNCHANGED lvars
    /\ SetHeap(heap)

DoWrite(b, n) ==
    /\ bufs[b].live
    /\ nw + n <= MaxWritten
    /\ LET p == Payload(n)
           r == Write(bufs[b], heap, p)
       IN  /\ r.how = "realloc" => HasRoom(heap)
           /\ nw' = nw + n
           /\ bufs' = [bufs EXCEPT ![b] = r.buf]
           /\ UNCHANGED ret
           /\ pending' = [pending EXCEPT ![b] = @ \o p]
           /\ ext' = [ext EXCEPT ![b] = NoExt]
           /\ UNCHANGED <<pools, held, pc, loc>>
           /\ UNCHANGED lvars
           /\ SetHeap(r.heap)

DoWriteByte(b) ==
    /\ bufs[b].live
    /\ nw + 1 <= MaxWritten
    /\ LET c == nw + 1
           r == WriteByte(bufs[b], heap, c)
       IN  /\ r.how = "realloc" => HasRoom(heap)
           /\ nw' = nw + 1
           /\ bufs' = [bufs EXCEPT ![b] = r.buf]
           /\ UNCHANGED ret
           /\ pending' = [pending EXCEPT ![b] = @ \o <<c>>]
           /\ ext' = [ext EXCEPT ![b] = NoExt]
           /\ UNCHANGED <<pools, held, pc, loc>>
           /\ UNCHANGED lvars
           /\ SetHeap(r.heap)

\* Extend; what the new bytes hold until the caller fills them is what the
\* memory holds
DoExtend(b, n) ==
    /\ bufs[b].live
    /\ nw + n <= MaxWritten
    /\ LET r == Extend(bufs[b], heap, n)
       IN  /\ r.how = "realloc" => HasRoom(heap)
           /\ nw' = IF n > 0 THEN nw + n ELSE nw
           /\ bufs' = [bufs EXCEPT ![b] = r.buf]
           /\ ext' = [ext EXCEPT ![b] =
                         IF r.out.len <= 0 THEN NoExt
                         ELSE [reg |-> r.out.reg, off |-> r.out.off,
                               len |-> r.out.len, base |-> nw]]
           /\ pending' = [pending EXCEPT ![b] =
                             @ \o LoadSeq(r.heap, r.out.reg, r.out.off,
                                          r.out.off + r.out.len)]
           /\ UNCHANGED ret
           /\ UNCHANGED <<pools, held, pc, loc>>
           /\ UNCHANGED lvars
           /\ SetHeap(r.heap)

\* the caller of Extend fills the slice it got, with the bytes numbered
\* when it was extended
Fill(b) ==
    /\ ext[b].len > 0
    /\ LET p == [i \in 1..ext[b].len |-> ext[b].base + i]
       IN  /\ pending' = [pending EXCEPT ![b] =
                             SubSeq(@, 1, Len(@) - ext[b].len) \o p]
           /\ ext' = [ext EXCEPT ![b] = NoExt]
           /\ UNCHANGED ret
           /\ UNCHANGED <<nw, pools, bufs, held, pc, loc>>
           /\ UNCHANGED lvars
           /\ SetHeap(Copy(heap, ext[b], p).heap)

DoRead(b, plen) ==
    /\ bufs[b].live
    /\ LET r == Read(bufs[b], heap, plen)
       IN  /\ bufs' = [bufs EXCEPT ![b] = r.buf]
           /\ pending' = [pending EXCEPT ![b] = Drop(@, Len(r.val))]
           /\ UNCHANGED ret
    /\ ext' = [ext EXCEPT ![b] = NoExt]
    /\ UNCHANGED <<nw, pools, held, pc, loc>>
    /\ UNCHANGED lvars
    /\ SetHeap(heap)

DoReadByte(b) ==
    /\ bufs[b].live
    /\ LET r == ReadByte(bufs[b], heap)
       IN  /\ bufs' = [bufs EXCEPT ![b] = r.buf]
           /\ pending' = [pending EXCEPT ![b] = Drop(@, Len(r.val))]
           /\ UNCHANGED ret
    /\ ext' = [ext EXCEPT ![b] = NoExt]
    /\ UNCHANGED <<nw, pools, held, pc, loc>>
    /\ UNCHANGED lvars
    /\ SetHeap(heap)

DoReadBytes(b, n) ==
    /\ bufs[b].live
    /\ LET r == ReadBytes(bufs[b], heap, n)
       IN  /\ bufs' = [bufs EXCEPT ![b] = r.buf]
           /\ pending' = [pending EXCEPT ![b] = Drop(@, Len(r.val))]
           /\ UNCHANGED ret
    /\ ext' = [ext EXCEPT ![b] = NoExt]
    /\ UNCHANGED <<nw, pools, held, pc, loc>>
    /\ UNCHANGED lvars
    /\ SetHeap(heap)

DoTo(b, n) ==
    /\ bufs[b].live
    /\ bufs' = [bufs EXCEPT ![b] = To(@, n).buf]
    /\ UNCHANGED ret
    /\ UNCHANGED <<nw, pools, ext, pending, held, pc, loc>>
    /\ UNCHANGED lvars
    /\ SetHeap(heap)

DoRelease(b) ==
    /\ LET r == Release(bufs[b], pools, heap)
       IN  /\ bufs' = [bufs EXCEPT ![b] = r.buf]
           /\ pools' = r.pools
           /\ UNCHANGED ret
    /\ Fresh(b, <<>>)
    /\ UNCHANGED <<nw, held, pc, loc>>
    /\ UNCHANGED lvars
    /\ SetHeap(heap)

(***************************************************************************)
(* package logger: the file logger.                                        *)
(*                                                                         *)
(* The log directory is disk: disk.inodes[i] is the size of file i and     *)
(* disk.dir maps a name to its file; name 0 is the log file's name and     *)
(* name k > 0 is that name with the time stamp k appended.  An open file   *)
(* (an os.File) is a handle [ino, closed]: it stays with its file when the *)
(* file is renamed, and it is closed after Close whether or not Close      *)
(* reports an error; a Write to a closed handle fails.  The length of a    *)
(* log line stands for the line.  The calls of one goroutine are followed: *)
(* lpc is where it is, larg the length of the line it is about to Write,   *)
(* mu says that the FileLogger's mutex is held, and lhist is the set of    *)
(* settings made so far on the Logger.                                     *)
(***************************************************************************)
\* the rotations of one run
MaxClock == 3

\* the bytes in all the files of the directory when a line is logged
MaxLogBytes == 6

\* lengths of the lines the callers log
WriteLens == {1, 2}

\* the arguments of SetSizeLimit and of SetMaxNumFiles
Limits == {1, 3}

MaxFiles == {0, 1, 2}

\* the size of the log file found by newFileLogger
InitSizes == {0, 2}

\* lengths of the lines the file logger logs itself: "Rotating logfile...",
\* "Rotated log, backup saved as ...", "Purged log file ...", and its error
\* lines
RotatingLen == 1

RotatedLen == 2

PurgedLen == 1

ErrorLen == 1

\* newFileLogger and NewFileLogger on a log file of size s
NewFileLogger(s) ==
    [fl   |-> [currentSize |-> s, isRotationAllowed |-> 0, logger |-> TRUE,
               file |-> [ino |-> 1, closed |-> FALSE],
               rotationLimit |-> 0, originalRotationLimit |-> 0,
               isClosed |-> FALSE, maxBackupFiles |-> 0],
     disk |-> [inodes |-> <<s>>, dir |-> (0 :> 1)]]

RECURSIVE SumSeq(_)
SumSeq(s) == IF s = <<>> THEN 0 ELSE Head(s) + SumSeq(Tail(s))

\* file.Write(b) with len(b) = len, of which the system stores k
FileWrite(d, f, len, k) ==
    IF f.closed THEN [disk |-> d, n |-> 0, err |-> TRUE]
    ELSE [disk |-> [d EXCEPT !.inodes[f.ino] = @ + k],
          n    |-> k,
          err  |-> k < len]

\* Rename that leaves the directory as it is
RenameNothing(d, from, to) == d

\* os.Rename(fname, bak)
Rename(d, from, to) ==
    [d EXCEPT !.dir = [x \in (DOMAIN d.dir \ {from}) \cup {to} |->
                          IF x = to THEN d.dir[from] ELSE d.dir[x]]]

\* os.OpenFile(fname, O_WRONLY|O_APPEND|O_CREATE): the file of that name, a
\* new empty one when there is none
OpenFile(d, name) ==
    IF name \in DOMAIN d.dir
    THEN [disk |-> d, file |-> [ino |-> d.dir[name], closed |-> FALSE]]
    ELSE [disk |-> [inodes |-> Append(d.inodes, 0),
                    dir    |-> d.dir @@ (name :> Len(d.inodes) + 1)],
          file |-> [ino |-> Len(d.inodes) + 1, closed |-> FALSE]]

\* FileLogger.setLimit up to the call of Noticef: nested says that it logs
\* "Rotating logfile..." while it holds the mutex
setLimit(f, limit) ==
    LET f1 == [f EXCEPT !.originalRotationLimit = limit,
                        !.rotationLimit = limit,
                        !.isRotationAllowed = 1]
    IN  [fl |-> f1, nested |-> f1.currentSize > f1.rotationLimit /\ f1.logger]

\* FileLogger.setMaxNumFiles
setMaxNumFiles(f, max) == [f EXCEPT !.maxBackupFiles = max]

\* FileLogger.logDirect of a line of length len, stored when ok: nested
\* says that the write failed and logDirect logs that through the Logger
logDirect(f, d, len, ok) ==
    LET w == FileWrite(d, f.file, len, IF ok THEN len ELSE 0)
    IN  [disk |-> w.disk, n |-> len, nested |-> w.err /\ f.logger]

\* the time-stamped backups in the directory, and the k oldest of a set
Backups(d) == DOMAIN d.dir \ {0}

Oldest(S, k) == {x \in S : Cardinality({y \in S : y < x}) < k}

\* FileLogger.logPurge; o.purge is "ok", or the call that fails: "readdir"
\* or the first "remove"
logPurge(f, d, o) ==
    IF o.purge = "readdir"
    THEN LET e == logDirect(f, d, ErrorLen, o.log)
         IN  [disk |-> e.disk, nested |-> e.nested]
    ELSE LET backups == Backups(d)
             excess  == Cardinality(backups) - (f.maxBackupFiles - 1)
         IN  IF excess <= 0 THEN [disk |-> d, nested |-> FALSE]
             ELSE IF o.purge = "remove"
             THEN LET e == logDirect(f, d, ErrorLen, o.log)
                  IN  [disk |-> e.disk, nested |-> e.nested]
             ELSE LET gone == Oldest(backups, IF o.log THEN excess ELSE 1)
                      d1   == [d EXCEPT !.dir =
                                 [x \in DOMAIN d.dir \ gone |-> d.dir[x]]]
                      e    == logDirect(f, d1,
                                 PurgedLen * Cardinality(gone), o.log)
                  IN  [disk |-> e.disk, nested |-> e.nested]

\* what a Write returns: n and err
LRet(f, d, n, err, c) ==
    [fl |-> f, disk |-> d, n |-> n, err |-> err, nested |-> FALSE,
     clock |-> c]

\* a Write that has come to log a line of its own through the Logger
LNested(f, d, c) ==
    [fl |-> f, disk |-> d, n |-> 0, err |-> "", nested |-> TRUE,
     clock |-> c]

\* FileLogger.Write while rotation is not allowed
WriteNoLimit(f, d, len, k) ==
    LET w == FileWrite(d, f.file, len, k)
    IN  IF w.err THEN [fl |-> f, disk |-> w.disk, n |-> w.n, err |-> "write"]
        ELSE [fl   |-> [f EXCEPT !.currentSize = @ + w.n],
              disk |-> w.disk, n |-> w.n, err |-> ""]

\* FileLogger.Write under the mutex (lines 178-237); c is the clock and o
\* says what the system does: o.w is the number of bytes the Write stores,
\* o.close, o.rename, o.open and o.log say whether Close, Rename, OpenFile
\* and the writes of logDirect succeed, o.purge is as in logPurge
WriteLocked(f, d, c, len, o) ==
    LET w == FileWrite(d, f.file, len, o.w)
        f1 == [f EXCEPT !.currentSize = @ + w.n]
    IN  IF w.err THEN LRet(f, w.disk, w.n, "write", c)
        ELSE IF f1.currentSize <= f1.rotationLimit
        THEN LRet(f1, w.disk, w.n, "", c)
        ELSE LET f2 == [f1 EXCEPT !.file.closed = TRUE]
             IN  IF ~o.close
                 THEN LET f3 == [f2 EXCEPT !.rotationLimit = @ * 2]
                          e  == logDirect(f3, w.disk, ErrorLen, o.log)
                      IN  IF ~f3.logger THEN LRet(f3, w.disk, w.n, "close", c)
                          ELSE IF e.nested THEN LNested(f3, e.disk, c)
                          ELSE LRet(f3, e.disk, w.n, "close", c)
                 ELSE LET bak == c + 1
                      IN  IF ~o.rename
                          THEN LRet(f2, w.disk, w.n, "rename", bak)
                          ELSE LET d1 == Rename(w.disk, 0, bak)
                                   op == OpenFile(d1, 0)
                               IN  IF ~o.open
                                   THEN LRet(f2, d1, w.n, "open", bak)
                                   ELSE LET f4 == [f2 EXCEPT !.file = op.file]
                                            ld == logDirect(f4, op.disk,
                                                     RotatedLen, o.log)
                                            f5 == [f4 EXCEPT
                                                     !.currentSize =
                                                        IF f4.logger
                                                        THEN ld.n ELSE 0,
                                                     !.rotationLimit =
                                                        f4.originalRotationLimit]
                                            d2 == IF f4.logger THEN ld.disk
                                                  ELSE op.disk
                                            pg == logPurge(f5, d2, o)
                                       IN  IF f4.logger /\ ld.nested
                                           THEN LNested(f4, ld.disk, bak)
                                           ELSE IF f5.maxBackupFiles <= 0
                                           THEN LRet(f5, d2, w.n, "", bak)
                                           ELSE IF pg.nested
                                           THEN LNested(f5, pg.disk, bak)
                                           ELSE LRet(f5, pg.disk, w.n, "",
                                                     bak)

\* FileLogger.Write (lines 163-238)
FLWrite(f, d, c, len, o) ==
    IF f.isRotationAllowed = 0
    THEN LET r == WriteNoLimit(f, d, len, o.w)
         IN  LRet(r.fl, r.disk, r.n, r.err, c)
    ELSE WriteLocked(f, d, c, len, o)

\* FileLogger.close
close(f, ok) ==
    IF f.isClosed THEN [fl |-> f, err |-> ""]
    ELSE [fl  |-> [f EXCEPT !.isClosed = TRUE, !.file.closed = TRUE],
          err |-> IF ok /\ ~f.file.closed THEN "" ELSE "close"]

\* what the system may do during one Write of len bytes
Outcomes(len) ==
    [w : 0..len, close : BOOLEAN, rename : BOOLEAN, open : BOOLEAN,
     log : BOOLEAN, purge : {"ok", "readdir", "remove"}]

\* Logger.SetSizeLimit: setLimit takes the mutex; when the file is already
\* above the limit it calls Noticef with the mutex held, and gives the
\* mutex back only after that call has returned
LogSetSizeLimit(limit) ==
    /\ lpc = "idle"
    /\ ~mu
    /\ LET r == setLimit(fl, limit)
       IN  /\ fl' = r.fl
           /\ mu' = r.nested
           /\ lpc' = IF r.nested THEN "write" ELSE "idle"
           /\ larg' = IF r.nested THEN RotatingLen ELSE 0
    /\ lhist' = lhist \cup {"SetSizeLimit"}
    /\ UNCHANGED <<disk, clock>>
    /\ UNCHANGED bvars

\* Logger.SetMaxNumFiles
LogSetMaxNumFiles(max) ==
    /\ lpc = "idle"
    /\ ~mu
    /\ fl' = setMaxNumFiles(fl, max)
    /\ lhist' = lhist \cup {"SetMaxNumFiles"}
    /\ UNCHANGED <<disk, clock, mu, lpc, larg>>
    /\ UNCHANGED bvars

\* Noticef, Warnf, Errorf, Debugf, Tracef: log.Logger.Printf formats the
\* line and calls FileLogger.Write with it
LogPrintf(n) ==
    /\ lpc = "idle"
    /\ clock < MaxClock
    /\ SumSeq(disk.inodes) + n <= MaxLogBytes
    /\ lpc' = "write"
    /\ larg' = n
    /\ UNCHANGED <<fl, disk, clock, mu, lhist>>
    /\ UNCHANGED bvars

\* FileLogger.Write, lines 165-172
LogWriteNoLimit ==
    /\ lpc = "write"
    /\ fl.isRotationAllowed = 0
    /\ \E o \in Outcomes(larg) :
          LET r == FLWrite(fl, disk, clock, larg, o)
          IN  fl' = r.fl /\ disk' = r.disk
    /\ lpc' = "idle"
    /\ larg' = 0
    /\ UNCHANGED <<clock, mu, lhist>>
    /\ UNCHANGED bvars

\* FileLogger.Write, line 174: fl.Lock()
LogWriteLock ==
    /\ lpc = "write"
    /\ fl.isRotationAllowed # 0
    /\ ~mu
    /\ mu' = TRUE
    /\ lpc' = "locked"
    /\ UNCHANGED <<fl, disk, clock, larg, lhist>>
    /\ UNCHANGED bvars

\* FileLogger.Write, lines 175-237, to its return and the Unlock deferred to
\* it, or to the call of Noticef in logDirect with the mutex held
LogWriteLocked ==
    /\ lpc = "locked"
    /\ \E o \in Outcomes(larg) :
          LET r == FLWrite(fl, disk, clock, larg, o)
          IN  /\ fl' = r.fl
              /\ disk' = r.disk
              /\ clock' = r.clock
              /\ mu' = r.nested
              /\ lpc' = IF r.nested THEN "write" ELSE "idle"
              /\ larg' = IF r.nested THEN ErrorLen ELSE 0
    /\ UNCHANGED lhist
    /\ UNCHANGED bvars

\* Logger.Close
LogClose ==
    /\ lpc = "idle"
    /\ ~mu
    /\ \E ok \in BOOLEAN : fl' = close(fl, ok).fl
    /\ lhist' = lhist \cup {"Close"}
    /\ UNCHANGED <<disk, clock, mu, lpc, larg>>
    /\ UNCHANGED bvars

\* the logger after NewFileLogger on a log file of size s
LogInit(s) ==
    /\ fl = NewFileLogger(s).fl
    /\ disk = NewFileLogger(s).disk
    /\ clock = 0
    /\ mu = FALSE
    /\ lpc = "idle"
    /\ larg = 0
    /\ lhist = {}

\* no array, empty pools, no buffer, idle threads
BufInit ==
    /\ heap = [r \in 1..MaxRegions |-> Free]
    /\ pools = NewAllocator
    /\ bufs = [b \in BufIds |-> NilBuf]
    /\ ext = [b \in BufIds |-> NoExt]
    /\ pending = [b \in BufIds |-> <<>>]
    /\ nw = 0
    /\ held = [t \in Threads |-> NilSlice]
    /\ pc = [t \in Threads |-> "idle"]
    /\ loc = [t \in Threads |-> NoLoc]
    /\ ret = NoRet

Init == BufInit /\ LogInit(0)

\* one buffer and its user
Next ==
    \/ \E size \in NewSizes : DoNewSize(1, size)
    \/ DoNew(1)
    \/ \E n \in 0..MaxLen : DoFromBytes(1, n)
    \/ DoReset(1)
    \/ \E n \in 0..MaxLen : DoWrite(1, n)
    \/ DoWriteByte(1)
    \/ \E n \in -1..MaxLen : DoExtend(1, n)
    \/ Fill(1)
    \/ \E plen \in 0..MaxLen : DoRead(1, plen)
    \/ DoReadByte(1)
    \/ \E n \in -1..MaxLen : DoReadBytes(1, n)
    \/ \E n \in -1..MaxLen : DoTo(1, n)
    \/ DoRelease(1)

Spec == Init /\ [][Next]_vars

\* one caller, every kind of argument
NextAlloc ==
    \/ \E n \in MakeSizes : CallerMake(1, n)
    \/ \E size \in GetSizes : GetCall(1, size)
    \/ GetPool(1)
    \/ PutCall(1)
    \/ PutPool(1)
    \/ \E k \in 1..MaxLen : CallerReslice(1, k)
    \/ PoolDrop

SpecAlloc == Init /\ [][NextAlloc]_vars

\* concurrent callers
NextConc ==
    \/ \E t \in Threads : CallerMake(t, 4)
    \/ \E t \in Threads, size \in ConcSizes : GetCall(t, size)
    \/ \E t \in Threads : GetPool(t)
    \/ \E t \in Threads : PutCall(t)
    \/ \E t \in Threads : PutPool(t)
    \/ PoolDrop

SpecConc == Init /\ [][NextConc]_vars

\* one goroutine that uses a file logger
NextLog ==
    \/ \E limit \in Limits : LogSetSizeLimit(limit)
    \/ \E max \in MaxFiles : LogSetMaxNumFiles(max)
    \/ \E n \in WriteLens : LogPrintf(n)
    \/ LogWriteNoLimit
    \/ LogWriteLock
    \/ LogWriteLocked
    \/ LogClose

\* NewFileLogger on a log file that is new or has lines in it
InitLog == \E s \in InitSizes : BufInit /\ LogInit(s)

SpecLog == InitLog /\ [][NextLog]_vars

(***************************************************************************)
(* Properties of the allocator.                                            *)
(***************************************************************************)
\* the capacities of the classes: the powers of two up to 2^maxBits
ClassCaps == {2 ^ i : i \in 0..maxBits}

\* the smallest power of two >= s, for s in 1..MaxSize
CeilPow2(s) ==
    CHOOSE c \in ClassCaps : c >= s /\ \A d \in ClassCaps : d >= s => c <= d

\* the class of capacity c, for c in ClassCaps
Log2(c) == CHOOSE i \in 0..maxBits : 2 ^ i = c

\* the servable sizes around every class boundary: 2^i - 1, 2^i, 2^i + 1
EdgeSizes ==
    {s \in UNION {{2 ^ i - 1, 2 ^ i, 2 ^ i + 1} : i \in 0..maxBits} :
        1 <= s /\ s <= MaxSize}

\* C3: for every size s with 1 <= s <= MaxSize, Allocator.Get(s) returns a
\* slice of length exactly s whose capacity is the smallest power of two
\* >= s, whatever was Put into the pools before: so did the Get that has
\* just returned, and so does Get of every size at a class boundary,
\* whichever item the pool hands it (a new one when there is memory).
C3_GetLenCap ==
    /\ (ret.op = "Get" /\ 1 <= ret.n /\ ret.n <= MaxSize) =>
          /\ ret.err = ""
          /\ ret.out # NilSlice
          /\ ret.out.len = ret.n
          /\ SliceCap(heap, ret.out) = CeilPow2(ret.n)
    /\ \A s \in EdgeSizes :
          /\ GetIdx(s) # -1
          /\ \A pick \in PoolPicks(pools, GetIdx(s)) :
                (pick = NilSlice => HasRoom(heap)) =>
                   LET g == Get(pools, heap, s, pick)
                   IN  /\ ~g.panic
                       /\ g.out # NilSlice
                       /\ g.out.len = s
                       /\ SliceCap(g.heap, g.out) = CeilPow2(s)

\* a Get of 3 bytes served with a slice that was Put before
C3_Witness ==
    /\ ret.op = "Get"
    /\ ret.n = 3
    /\ ret.buf # NilSlice
    /\ ret.out.len = 3
    /\ SliceCap(heap, ret.out) = 4

\* C4: Allocator.Get(size) with size <= 0 or size > MaxSize returns nil and
\* takes nothing from any pool: the pools are as before the call.
C4_GetUnservable ==
    [][(ret'.op = "Get" /\ (ret'.n <= 0 \/ ret'.n > MaxSize)) =>
          (ret'.out = NilSlice /\ pools' = pools)]_vars

\* Get(MaxSize + 1) returned nil while the pool of the largest class held a
\* slice
C4_Witness ==
    /\ ret.op = "Get"
    /\ ret.n = MaxSize + 1
    /\ ret.out = NilSlice
    /\ \E e \in BagToSet(pools) : e.idx = maxBits

\* C5: Allocator.Put(buf) returns an error and leaves every pool unchanged
\* when buf is nil, its capacity is 0 or more than MaxSize, or its capacity
\* is not a power of two; otherwise it returns nil and adds buf, with its
\* length reset to its capacity, to the pool of class log2(capacity) and to
\* no other.
C5_Put ==
    [][ret'.op = "Put" =>
          LET buf == ret'.buf
              c   == SliceCap(heap, buf)
          IN  IF buf = NilSlice \/ c = 0 \/ c > MaxSize \/ c \notin ClassCaps
              THEN ret'.err # "" /\ pools' = pools
              ELSE /\ ret'.err = ""
                   /\ pools' = pools (+) SetToBag({[idx |-> Log2(c),
                                                    s |-> [buf EXCEPT
                                                             !.len = c]]})]_vars

\* a slice of length 3 and capacity 4 was Put and lies, at length 4, in the
\* pool of class 2
C5_Witness ==
    /\ ret.op = "Put"
    /\ ret.err = ""
    /\ ret.buf.len = 3
    /\ ret.out.len = 4
    /\ [idx |-> 2, s |-> ret.out] \in BagToSet(pools)

\* C6: after any sequence of Get and Put, every slice in the pool of class i
\* has capacity exactly 2^i, and a Get served from a pool returns the very
\* array that was Put, with the capacity of its class.
C6_PoolClassCap ==
    /\ \A e \in BagToSet(pools) :
          /\ e.idx \in 0..maxBits
          /\ SliceCap(heap, e.s) = 2 ^ e.idx
    /\ (ret.op = "Get" /\ ret.buf # NilSlice) =>
          /\ ret.out.reg = ret.buf.reg
          /\ ret.out.off = ret.buf.off
          /\ SliceCap(heap, ret.out) = SliceCap(heap, ret.buf)
          /\ SliceCap(heap, ret.out) = CeilPow2(ret.n)

\* the tail of a caller's array, of capacity 2, was Put and came back from
\* a Get of class 1
C6_Witness ==
    /\ ret.op = "Get"
    /\ ret.buf # NilSlice
    /\ ret.buf.off > 0
    /\ SliceCap(heap, ret.out) = 2

\* C8: under any interleaving of Get and Put of several threads on one
\* allocator, no array is held by two threads, none is both held and in a
\* pool, none is in the pools twice, every deposit lies in the pool of its
\* capacity, and every Get returns the length asked for with the capacity
\* of its class.
C8_Ownership ==
    /\ \A t1, t2 \in Threads :
          (t1 # t2 /\ held[t1] # NilSlice) => held[t1].reg # held[t2].reg
    /\ \A e \in BagToSet(pools) :
          /\ CopiesIn(e, pools) = 1
          /\ \A t \in Threads : held[t].reg # e.s.reg
          /\ \A f \in BagToSet(pools) : f # e => f.s.reg # e.s.reg
          /\ SliceCap(heap, e.s) = 2 ^ e.idx
    /\ ret.op = "Get" =>
          /\ ret.out.len = ret.n
          /\ SliceCap(heap, ret.out) = CeilPow2(ret.n)

\* thread 1 was served a slice from the pool while thread 2 was in the
\* middle of a Put
C8_Witness ==
    /\ ret.op = "Get"
    /\ ret.who = 1
    /\ ret.buf # NilSlice
    /\ pc[2] = "put"
    /\ held[2] # NilSlice

(***************************************************************************)
(* Properties of the buffer.                                               *)
(***************************************************************************)
\* a is a prefix of b
IsPrefix(a, b) == Len(a) <= Len(b) /\ \A i \in 1..Len(a) : a[i] = b[i]

\* C1: after any sequence of buffer operations the cursors satisfy
\* 0 <= start <= end <= len(data), data lies within its array, and the
\* readable content - the bytes stored and not yet read - is exactly
\* data[start:end].
C1_Cursors ==
    \A b \in BufIds :
       /\ 0 <= bufs[b].start
       /\ bufs[b].start <= bufs[b].end
       /\ bufs[b].end <= bufs[b].data.len
       /\ bufs[b].data.len <= SliceCap(heap, bufs[b].data)
       /\ Bytes(bufs[b], heap) = pending[b]

\* a pooled buffer read in part: bytes consumed in front, bytes unread, and
\* room behind
C1_Witness ==
    /\ bufs[1].pooled
    /\ bufs[1].start > 0
    /\ bufs[1].end > bufs[1].start
    /\ bufs[1].end < bufs[1].data.len

\* C2: for any interleaving of writes and reads on a buffer, every read
\* returns the oldest bytes written and not yet read, in the order they were
\* written, and the buffer is drained exactly when nothing written is left
\* unread; so what was read is always a prefix of what was written, also
\* across compaction and reallocation.
C2_Fifo ==
    bufs[1].live =>
       /\ \A plen \in 0..MaxLen :
             LET r == Read(bufs[1], heap, plen)
             IN  Len(r.val) = r.n /\ IsPrefix(r.val, pending[1])
       /\ IsPrefix(ReadByte(bufs[1], heap).val, pending[1])
       /\ \A n \in 0..MaxLen :
             IsPrefix(ReadBytes(bufs[1], heap, n).val, pending[1])
       /\ IsEmpty(bufs[1]) <=> pending[1] = <<>>

\* four bytes went through a buffer whose array was reallocated for them;
\* three of them are read and the fourth is the next
C2_Witness ==
    /\ ~bufs[1].pooled
    /\ bufs[1].data.len = 4
    /\ bufs[1].start = 3
    /\ pending[1] = <<4>>
    /\ Read(bufs[1], heap, 1).val = <<4>>

\* C7: Release never fails.  On a live buffer it leaves the zero Buffer
\* (Len 0, Cap 0, not pooled), which is what NewSize(0) constructs; on a
\* pool-owned buffer it Puts the array exactly once, at its full capacity,
\* into the pool of its class; on any other buffer - nil, empty, wrapped
\* by FromBytes, reallocated - it Puts nothing and the pools are unchanged;
\* and a second Release Puts nothing and changes nothing.
C7_Release ==
    LET b     == bufs[1]
        c     == SliceCap(heap, b.data)
        r     == Release(b, pools, heap)
        again == Release(r.buf, r.pools, heap)
    IN  /\ r.err = ""
        /\ BLen(r.buf) = 0
        /\ BCap(r.buf) = 0
        /\ ~r.buf.pooled
        /\ b.live => r.buf = NewSize(r.pools, heap, 0, NilSlice).buf
        /\ ~b.live => r.buf = b
        /\ IF b.live /\ b.pooled
           THEN /\ r.puts = 1
                /\ c \in ClassCaps
                /\ r.pools = pools (+)
                      SetToBag({[idx |-> Log2(c),
                                 s |-> [b.data EXCEPT !.len = c]]})
           ELSE /\ r.puts = 0
                /\ r.pools = pools
        /\ again.err = ""
        /\ again.puts = 0
        /\ again.pools = r.pools
        /\ again.buf = r.buf

\* a pooled buffer that was written to has been released: the buffer is the
\* zero Buffer and its array lies in the pool of class 2 with the bytes
\* still in it
C7_Witness ==
    /\ bufs[1] = ZeroBuffer
    /\ \E e \in BagToSet(pools) : e.idx = 2 /\ heap[e.s.reg].mem # <<>>

\* C9: Write(p) returns len(p), Len grows by exactly len(p), Cap >= Len
\* afterwards, and the readable bytes are those of before followed by p;
\* Write of no bytes changes neither the buffer nor the memory; WriteByte(c)
\* does not fail and leaves the buffer and the memory as Write of <<c>>
\* does.  (A call that needs a new array is looked at when there is memory
\* for it.)
C9_Write ==
    bufs[1].live =>
       /\ \A n \in 0..MaxLen :
             LET p == Payload(n)
                 r == Write(bufs[1], heap, p)
             IN  (r.how = "realloc" => HasRoom(heap)) =>
                    /\ r.n = n
                    /\ BLen(r.buf) = BLen(bufs[1]) + n
                    /\ BCap(r.buf) >= BLen(r.buf)
                    /\ Bytes(r.buf, r.heap) = Bytes(bufs[1], heap) \o p
                    /\ n = 0 => (r.buf = bufs[1] /\ r.heap = heap)
       /\ LET c == nw + 1
              w == WriteByte(bufs[1], heap, c)
              r == Write(bufs[1], heap, <<c>>)
          IN  (r.how = "realloc" => HasRoom(heap)) =>
                 /\ ~w.panic
                 /\ w.buf = r.buf
                 /\ w.heap = r.heap

\* a pooled buffer holding two unread bytes on which Write of two bytes has
\* to reallocate: it returns 2 and leaves the four bytes in an array of its
\* own
C9_Witness ==
    /\ bufs[1].pooled
    /\ BLen(bufs[1]) = 2
    /\ HasRoom(heap)
    /\ LET r == Write(bufs[1], heap, Payload(2))
       IN  /\ r.how = "realloc"
           /\ r.n = 2
           /\ ~r.buf.pooled
           /\ Bytes(r.buf, r.heap) = pending[1] \o Payload(2)

\* C10: for every n >= 0, Extend(n) does not fail, increases Len by exactly
\* n, leaves the bytes that were readable unchanged and in front, and
\* returns the slice data[oldEnd:oldEnd+n] of the buffer's array, so that
\* the bytes the caller stores into that slice are what reads return after
\* the earlier content; and the slice a caller holds from its last Extend
\* is the tail of the readable bytes.
C10_Extend ==
    bufs[1].live =>
       /\ \A n \in 0..MaxLen :
             LET b == bufs[1]
                 r == Extend(b, heap, n)
                 p == Payload(n)
                 f == Copy(r.heap, r.out, p)
             IN  (r.how = "realloc" => HasRoom(heap)) =>
                    /\ ~r.panic
                    /\ BLen(r.buf) = BLen(b) + n
                    /\ IsPrefix(Bytes(b, heap), Bytes(r.buf, r.heap))
                    /\ r.out = [reg |-> r.buf.data.reg,
                                off |-> r.buf.data.off + r.buf.end - n,
                                len |-> n]
                    /\ f.n = n
                    /\ Bytes(r.buf, f.heap) = Bytes(b, heap) \o p
                    /\ ReadBytes(r.buf, f.heap, BLen(b) + n).val =
                          Bytes(b, heap) \o p
       /\ ext[1].len > 0 =>
             [reg |-> ext[1].reg, off |-> ext[1].off, len |-> ext[1].len] =
                SubSlice(bufs[1].data, bufs[1].end - ext[1].len, bufs[1].end)

\* Extend(2) has acted on a buffer with one unread byte behind a read one:
\* compaction did not make room, the array was reallocated, and the caller
\* holds the two new bytes, not yet filled
C10_Witness ==
    /\ ext[1].len = 2
    /\ ~bufs[1].pooled
    /\ bufs[1].data.len = 4
    /\ bufs[1].start = 0
    /\ bufs[1].end = 3
    /\ pending[1] = <<2, 0, 0>>

\* C11: ReadBytes(n), n >= 0, is all-or-nothing.  With fewer than n bytes
\* readable it reports EOF, returns no bytes and leaves the buffer as it
\* was.  With at least n readable it reports no error and returns exactly
\* the first n readable bytes; start advances by n when bytes remain, and
\* the cursors go back to 0 when exactly n were readable.  What stays
\* readable is the content without those n bytes.
C11_ReadBytes ==
    bufs[1].live =>
       \A n \in 0..(MaxLen + 1) :
          LET b == bufs[1]
              r == ReadBytes(b, heap, n)
          IN  IF BLen(b) < n
              THEN /\ r.err = "EOF"
                   /\ r.val = <<>>
                   /\ r.buf = b
              ELSE /\ r.err = ""
                   /\ Len(r.val) = n
                   /\ r.val = SubSeq(Bytes(b, heap), 1, n)
                   /\ r.buf.data = b.data
                   /\ r.buf.pooled = b.pooled
                   /\ BLen(b) > n =>
                         r.buf = [b EXCEPT !.start = b.start + n]
                   /\ BLen(b) = n => (r.buf.start = 0 /\ r.buf.end = 0)
                   /\ Bytes(r.buf, heap) = Drop(Bytes(b, heap), n)

\* two bytes are readable behind a consumed one: ReadBytes(3) reports EOF
\* and changes nothing, ReadBytes(1) returns the first and moves start, and
\* ReadBytes(2) returns both and resets the cursors
C11_Witness ==
    /\ bufs[1].live
    /\ bufs[1].start = 1
    /\ BLen(bufs[1]) = 2
    /\ ReadBytes(bufs[1], heap, 3).err = "EOF"
    /\ ReadBytes(bufs[1], heap, 1).buf.start = 2
    /\ ReadBytes(bufs[1], heap, 2).val = pending[1]
    /\ ReadBytes(bufs[1], heap, 2).buf.end = 0

\* C12: Read(dest) and ReadByte() report EOF exactly when the buffer has
\* nothing readable, and then return nothing and leave the buffer as it
\* was.  Otherwise Read reports no error, copies exactly
\* min(len(dest), Len()) bytes - the readable bytes from start on - and
\* consumes that many (start advances by the count, and the cursors go
\* back to 0 when nothing is left); ReadByte does what Read into one byte
\* does.  So a Read that returns 0 bytes without error (len(dest) = 0 on a
\* buffer with content) is never mistaken for EOF.
C12_Read ==
    bufs[1].live =>
       LET b  == bufs[1]
           rb == ReadByte(b, heap)
           r1 == Read(b, heap, 1)
       IN  /\ \A plen \in 0..(MaxLen + 1) :
                 LET r == Read(b, heap, plen)
                     k == Min(plen, BLen(b))
                 IN  /\ r.err = "EOF" <=> IsEmpty(b)
                     /\ r.err \in {"", "EOF"}
                     /\ IF IsEmpty(b)
                        THEN r.n = 0 /\ r.val = <<>> /\ r.buf = b
                        ELSE /\ r.n = k
                             /\ r.val = SubSeq(Bytes(b, heap), 1, k)
                             /\ r.buf.data = b.data
                             /\ r.buf.pooled = b.pooled
                             /\ BLen(b) > k =>
                                   r.buf = [b EXCEPT !.start = b.start + k]
                             /\ BLen(b) = k =>
                                   (r.buf.start = 0 /\ r.buf.end = 0)
                             /\ Bytes(r.buf, heap) = Drop(Bytes(b, heap), k)
           /\ rb.err = "EOF" <=> IsEmpty(b)
           /\ rb.err \in {"", "EOF"}
           /\ IsEmpty(b) => (rb.val = <<>> /\ rb.buf = b)
           /\ rb.buf = r1.buf
           /\ rb.val = r1.val

\* one byte is readable behind a consumed one: Read into no bytes returns 0
\* without error and changes nothing, Read into two bytes returns the one
\* byte and drains the buffer, and the Read after that reports EOF
C12_Witness ==
    /\ bufs[1].live
    /\ bufs[1].start = 1
    /\ BLen(bufs[1]) = 1
    /\ Read(bufs[1], heap, 0) =
          [buf |-> bufs[1], n |-> 0, val |-> <<>>, err |-> ""]
    /\ Read(bufs[1], heap, 2).n = 1
    /\ Read(Read(bufs[1], heap, 2).buf, heap, 2).err = "EOF"
    /\ ReadByte(bufs[1], heap).val = pending[1]

\* C13: a negative length given to Extend or to ReadBytes is fatal: the
\* call panics and returns no error value to its caller.
C13_NegativeFatal ==
    bufs[1].live =>
       \A n \in {-2, -1} :
          /\ Extend(bufs[1], heap, n).panic
          /\ ReadBytes(bufs[1], heap, n).panic
          /\ ReadBytes(bufs[1], heap, n).err = ""

\* a buffer with content on which Extend(-1) panics while ReadBytes(-1)
\* returns the error "negative length" to its caller and the buffer goes on
\* unchanged
C13_Witness ==
    /\ bufs[1].live
    /\ BLen(bufs[1]) > 0
    /\ Extend(bufs[1], heap, -1).panic
    /\ ReadBytes(bufs[1], heap, -1) =
          [buf |-> bufs[1], val |-> <<>>, err |-> "negative length",
           panic |-> FALSE]

\* C14: NewSize(size) yields an empty buffer (Len 0, cursors 0) with
\* Cap = size.  For 1 <= size <= MaxSize it is pool-owned and its array is
\* the one Get handed out, of the class capacity, taken out of the pool when
\* it came from there; for size > MaxSize it is not pool-owned, its array is
\* a fresh one of exactly size bytes and the pools are untouched; for size 0
\* the data is nil, the capacity 0 and the buffer not pool-owned.  New() is
\* NewSize(DefaultSize) and pool-owned.  (A call that needs a new array is
\* looked at when there is memory for it.)
C14_NewSize ==
    /\ \A size \in {0, 1, 2, 3, 4, 5, DefaultSize - 1, DefaultSize,
                    MaxSize, MaxSize + 1, MaxSize + 2} :
          \A pick \in (IF GetIdx(size) = -1 THEN {NilSlice}
                       ELSE PoolPicks(pools, GetIdx(size))) :
             LET r == NewSize(pools, heap, size, pick)
                 b == r.buf
             IN  ((pick = NilSlice /\ size > 0) => HasRoom(heap)) =>
                    /\ b.live
                    /\ b.start = 0 /\ b.end = 0
                    /\ BLen(b) = 0
                    /\ BCap(b) = size
                    /\ b.pooled <=> (1 <= size /\ size <= MaxSize)
                    /\ b.pooled =>
                          /\ SliceCap(r.heap, b.data) = CeilPow2(size)
                          /\ b.data.off = 0
                          /\ IF pick = NilSlice
                             THEN /\ b.data.reg \in FreeSlots(heap)
                                  /\ r.pools = pools
                             ELSE /\ b.data.reg = pick.reg
                                  /\ r.heap = heap
                                  /\ r.pools (+) SetToBag(
                                        {[idx |-> GetIdx(size),
                                          s |-> pick]}) = pools
                    /\ size > MaxSize =>
                          /\ b.data.reg \in FreeSlots(heap)
                          /\ b.data.off = 0
                          /\ SliceCap(r.heap, b.data) = size
                          /\ r.pools = pools
                    /\ size = 0 =>
                          (b.data = NilSlice /\ r.pools = pools
                           /\ r.heap = heap)
    /\ \A pick \in PoolPicks(pools, GetIdx(DefaultSize)) :
          /\ New(pools, heap, pick) = NewSize(pools, heap, DefaultSize, pick)
          /\ (pick = NilSlice => HasRoom(heap)) =>
                /\ New(pools, heap, pick).buf.pooled
                /\ BCap(New(pools, heap, pick).buf) = DefaultSize

\* NewSize(3) has acted and the pool served it with an array used before:
\* the buffer is empty, pool-owned, of capacity 3 in an array of 4 that still
\* holds bytes of its earlier use
C14_Witness ==
    /\ bufs[1].pooled
    /\ bufs[1].start = 0
    /\ bufs[1].end = 0
    /\ bufs[1].data.len = 3
    /\ SliceCap(heap, bufs[1].data) = 4
    /\ heap[bufs[1].data.reg].mem # <<>>
    /\ pending[1] = <<>>

\* n bytes numbered from base + 1 on
Stamps(base, n) == [i \in 1..n |-> base + i]

\* a buffer alone with its array: st is [buf, heap]
Alone(b, h) == [buf |-> b, heap |-> Collect(h, {b.data.reg})]

\* Write(p) on a buffer alone with its array; the array it leaves behind
\* when it reallocates is collected
WriteAlone(st, p) ==
    LET w == Write(st.buf, st.heap, p) IN Alone(w.buf, w.heap)

\* what a caller sees of a buffer: Len, Cap and the readable bytes
Seen(st) == <<BLen(st.buf), BCap(st.buf), Bytes(st.buf, st.heap)>>

\* NewSize(size) in a program that holds nothing else
FreshBuffer(size) ==
    LET r == NewSize(NewAllocator, [r \in 1..MaxRegions |-> Free], size,
                     NilSlice)
    IN  Alone(r.buf, r.heap)

\* C15: Reset() sets start = end = 0 and leaves the array, its capacity and
\* the pooled flag as they were; and every sequence of up to three Writes
\* applied right after Reset() leaves, after each Write, the same Len, Cap
\* and readable bytes as the same Writes applied to a buffer freshly
\* constructed by NewSize(Cap()).
C15_Reset ==
    bufs[1].live =>
       LET b  == bufs[1]
           rb == Reset(b)
           a0 == Alone(rb, heap)
           f0 == FreshBuffer(BCap(b))
       IN  /\ rb.start = 0 /\ rb.end = 0
           /\ rb.data = b.data
           /\ rb.pooled = b.pooled
           /\ rb.live
           /\ BLen(rb) = 0
           /\ BCap(rb) = BCap(b)
           /\ SliceCap(heap, rb.data) = SliceCap(heap, b.data)
           /\ Seen(a0) = Seen(f0)
           /\ \A n1, n2, n3 \in 0..MaxLen :
                 LET p1 == Stamps(nw, n1)
                     p2 == Stamps(nw + n1, n2)
                     p3 == Stamps(nw + n1 + n2, n3)
                     a1 == WriteAlone(a0, p1)
                     a2 == WriteAlone(a1, p2)
                     a3 == WriteAlone(a2, p3)
                     f1 == WriteAlone(f0, p1)
                     f2 == WriteAlone(f1, p2)
                     f3 == WriteAlone(f2, p3)
                 IN  /\ Seen(a1) = Seen(f1)
                     /\ Seen(a2) = Seen(f2)
                     /\ Seen(a3) = Seen(f3)
                     /\ Seen(a3)[3] = p1 \o p2 \o p3

\* a pool-owned buffer of capacity 3 with one byte consumed and two unread:
\* after Reset, Writes of two and of two bytes reallocate at the second,
\* as they do on a fresh NewSize(3), and leave the four bytes in an array of
\* six
C15_Witness ==
    /\ bufs[1].pooled
    /\ bufs[1].data.len = 3
    /\ bufs[1].start = 1
    /\ bufs[1].end = 3
    /\ LET a0 == Alone(Reset(bufs[1]), heap)
           a2 == WriteAlone(WriteAlone(a0, Stamps(nw, 2)), Stamps(nw + 2, 2))
           f2 == WriteAlone(WriteAlone(FreshBuffer(3), Stamps(nw, 2)),
                            Stamps(nw + 2, 2))
       IN  /\ Reset(bufs[1]).pooled
           /\ ~a2.buf.pooled
           /\ Seen(a2) = <<4, 6, Stamps(nw, 4)>>
           /\ Seen(f2) = Seen(a2)

\* the bytes a slice shows
View(h, s) == LoadSeq(h, s.reg, s.off, s.off + s.len)

\* C16: To(n) consumes nothing: the buffer (start, end, data, pooled) is
\* afterwards what it was, for every n.  For n <= 0 it returns an empty
\* (nil) slice; for n > 0 it returns the slice data[start:start+k] with
\* k = min(n, Len()), which shows exactly the first k readable bytes.
C16_To ==
    bufs[1].live =>
       \A n \in -1..(MaxLen + 1) :
          LET b == bufs[1]
              r == To(b, n)
              k == Min(n, BLen(b))
          IN  /\ r.buf = b
              /\ Bytes(r.buf, heap) = Bytes(b, heap)
              /\ n <= 0 => r.out = NilSlice
              /\ n > 0 =>
                    /\ r.out = [reg |-> b.data.reg,
                                off |-> b.data.off + b.start,
                                len |-> k]
                    /\ View(heap, r.out) = SubSeq(Bytes(b, heap), 1, k)
                    /\ View(heap, r.out) = SubSeq(pending[1], 1, k)

\* two bytes are readable behind a consumed one: To(1) shows the first of
\* them, To(3) is clamped to the two, To(0) is empty, and the buffer still
\* holds both
C16_Witness ==
    /\ bufs[1].live
    /\ bufs[1].start = 1
    /\ BLen(bufs[1]) = 2
    /\ To(bufs[1], 0).out = NilSlice
    /\ View(heap, To(bufs[1], 1).out) = SubSeq(pending[1], 1, 1)
    /\ View(heap, To(bufs[1], 3).out) = pending[1]
    /\ To(bufs[1], 3).buf = bufs[1]
    /\ Len(pending[1]) = 2

\* the buffers that the methods of Buffer leave behind when called on b
\* with memory h: Reset, grow, Extend, Write, WriteByte, Read, ReadByte,
\* ReadBytes and To, for the arguments of the model (a call that
\* reallocates is among them when there is memory for it)
AfterMethod(b, h) ==
    {Reset(b), ReadByte(b, h).buf}
    \cup {r.buf : r \in {x \in {grow(b, h, n) : n \in -1..(MaxLen + 1)} :
                            x.how = "realloc" => HasRoom(h)}}
    \cup {r.buf : r \in {x \in {Extend(b, h, n) : n \in -1..MaxLen} :
                            x.how = "realloc" => HasRoom(h)}}
    \cup {r.buf : r \in {x \in {Write(b, h, Payload(n)) : n \in 0..MaxLen} :
                            x.how = "realloc" => HasRoom(h)}}
    \cup {r.buf : r \in {x \in {WriteByte(b, h, nw + 1)} :
                            x.how = "realloc" => HasRoom(h)}}
    \cup {Read(b, h, n).buf : n \in 0..MaxLen}
    \cup {ReadBytes(b, h, n).buf : n \in -1..MaxLen}
    \cup {To(b, n).buf : n \in -1..MaxLen}

\* C17: a buffer Puts into the allocator only an array it got from the
\* allocator.  NewSize sets pooled exactly for a servable size, and the
\* data is then the slice Get returned; FromBytes(s) is not pooled, has
\* start 0, end = len(s) and s itself as data; no method sets pooled: after
\* any method the buffer is pooled only if it was before and has the same
\* data; a reallocation and Release clear the flag.  So a pooled buffer
\* always holds the array of its NewSize, Release Puts only the array of a
\* pooled buffer, and that Put passes the validation of Put.
C17_PooledOrigin ==
    LET b == bufs[1]
        r == Release(b, pools, heap)
    IN  /\ \A size \in NewSizes \cup {1, 4, DefaultSize, MaxSize} :
              \A pick \in (IF GetIdx(size) = -1 THEN {NilSlice}
                           ELSE PoolPicks(pools, GetIdx(size))) :
                 LET c == NewSize(pools, heap, size, pick)
                     g == Get(pools, heap, size, pick)
                 IN  ((pick = NilSlice /\ size > 0) => HasRoom(heap)) =>
                        /\ c.buf.pooled <=> g.out # NilSlice
                        /\ c.buf.pooled <=> (1 <= size /\ size <= MaxSize)
                        /\ c.buf.pooled =>
                              (c.buf.data = g.out /\ c.pools = g.pools)
        /\ LET f == FromBytes(b.data)
           IN  /\ ~f.pooled
               /\ f.start = 0
               /\ f.end = b.data.len
               /\ f.data = b.data
               /\ Release(f, pools, heap).puts = 0
               /\ Release(f, pools, heap).pools = pools
        /\ b.live =>
              \A a \in AfterMethod(b, heap) :
                 /\ a.pooled => (b.pooled /\ a.data = b.data)
                 /\ a.data.reg # b.data.reg => ~a.pooled
        /\ ~r.buf.pooled
        /\ \A a \in AfterMethod(r.buf, heap) : ~a.pooled
        /\ b.pooled =>
              /\ b.data.off = 0
              /\ SliceCap(heap, b.data) \in ClassCaps
              /\ PutCheck(heap, b.data).err = ""
        /\ r.puts = 1 => (b.pooled /\ r.err = "")
        /\ r.pools # pools =>
              /\ b.pooled
              /\ r.pools = pools (+)
                    SetToBag({[idx |-> Log2(SliceCap(heap, b.data)),
                               s |-> [b.data EXCEPT
                                         !.len = SliceCap(heap, b.data)]]})

\* a buffer from NewSize(3) has outgrown its array: it holds four bytes in
\* an array of six that growth allocated, it is no longer pooled, and its
\* Release Puts nothing
C17_Witness ==
    /\ bufs[1].live
    /\ ~bufs[1].pooled
    /\ bufs[1].data.len = 6
    /\ BLen(bufs[1]) = 4
    /\ Release(bufs[1], pools, heap).puts = 0
    /\ Release(bufs[1], pools, heap).pools = pools

(***************************************************************************)
(* Properties of the file logger.                                          *)
(***************************************************************************)
\* r is the return of a Write of len bytes that rotated the log file of
\* directory d at time c: the Write returns len and no error; the file that
\* was the log file has the len bytes and, when keep holds, is in the
\* directory under the time-stamped name, which is new; the log file's name
\* is that of a new file, which is the open file of the logger; and the
\* size counter is the length of the line about the rotation
Rotated(r, d, c, len, keep) ==
    LET old == d.dir[0]
        bak == c + 1
        new == Len(d.inodes) + 1
    IN  /\ ~r.nested
        /\ r.n = len
        /\ r.err = ""
        /\ bak \notin DOMAIN d.dir
        /\ r.disk.inodes[old] = d.inodes[old] + len
        /\ keep => (bak \in DOMAIN r.disk.dir /\ r.disk.dir[bak] = old)
        /\ 0 \in DOMAIN r.disk.dir
        /\ r.disk.dir[0] = new
        /\ r.fl.file = [ino |-> new, closed |-> FALSE]
        /\ r.fl.currentSize = RotatedLen
        /\ r.fl.rotationLimit = r.fl.originalRotationLimit

\* the system lets a Write of len bytes store them all, lets Close, Rename
\* and OpenFile succeed and stores the lines the logger writes itself; the
\* calls of the purge may fail
RotationSucceeds(len) ==
    {o \in Outcomes(len) :
        o.w = len /\ o.close /\ o.rename /\ o.open /\ o.log}

\* as long as SetSizeLimit has not been called, no Write - whatever the
\* system does - changes the directory or the open file of the logger
NoRotationBeforeLimit ==
    "SetSizeLimit" \notin lhist =>
       /\ fl.isRotationAllowed = 0
       /\ \A len \in WriteLens : \A o \in Outcomes(len) :
             LET r == FLWrite(fl, disk, clock, len, o)
             IN  /\ ~r.nested
                 /\ r.disk.dir = disk.dir
                 /\ Len(r.disk.inodes) = Len(disk.inodes)
                 /\ r.fl.file = fl.file
                 /\ r.clock = clock

OwnSizes == {0, 3}

\* two buffers and their users; FromBytes wraps a slice its caller made
NextOwn ==
    \E b \in BufIds :
       \/ \E size \in OwnSizes : DoNewSize(b, size)
       \/ DoFromBytes(b, 1)
       \/ DoReset(b)
       \/ \E n \in 1..MaxLen : DoWrite(b, n)
       \/ DoRead(b, MaxLen)
       \/ DoRelease(b)

SpecOwn == Init /\ [][NextOwn]_vars

\* the arrays that lie in the pools
PoolRegions(pl) == {e.s.reg : e \in BagToSet(pl)}

\* the arrays behind the buffers other than b
OtherRegions(b) == {bufs[o].data.reg : o \in BufIds \ {b}} \ {0}

\* what the methods that store leave behind when called on b with memory
\* h: the buffer and the memory after grow, Extend, Write and WriteByte (a
\* call that reallocates is among them when there is memory for it)
Stores(b, h) ==
    {x \in {[buf |-> r.buf, heap |-> r.heap, how |-> r.how] :
               r \in {grow(b, h, n) : n \in 0..(MaxLen + 1)}
                     \cup {Write(b, h, Payload(n)) : n \in 0..MaxLen}} :
        x.how = "realloc" => HasRoom(h)}
    \cup {x \in {[buf |-> r.buf, heap |-> r.heap, how |-> r.how] :
                    r \in {Extend(b, h, n) : n \in 0..MaxLen}} :
             x.how = "realloc" => HasRoom(h)}
    \cup {x \in {[buf |-> r.buf, heap |-> r.heap, how |-> r.how] :
                    r \in {WriteByte(b, h, nw + 1)}} :
             x.how = "realloc" => HasRoom(h)}

\* what the methods that read return when called on b with memory h: the
\* bytes of Bytes, Read, ReadByte and ReadBytes
Loads(b, h) ==
    {Bytes(b, h), ReadByte(b, h).val}
    \cup {Read(b, h, n).val : n \in 0..MaxLen}
    \cup {ReadBytes(b, h, n).val : n \in -1..MaxLen}

\* C19: a pooled array has one owner at a time.  An array that lies in a
\* pool lies there once and is the data of no buffer; no array is the data
\* of two buffers; NewSize hands out an array that is then neither in the
\* pool nor the data of the other buffer; a method that stores changes no
\* byte of an array in the pool or of the other buffer; and after Release
\* the buffer has no data (it is the zero Buffer), the array it Put is in
\* the pool and is not the data of the other buffer, and every later
\* method on the released buffer reads nothing, returns no slice, and
\* stores only into a new array, leaving the arrays of the pool as they
\* are.
C19_OneOwner ==
    /\ \A e \in BagToSet(pools) :
          /\ CopiesIn(e, pools) = 1
          /\ \A f \in BagToSet(pools) : f.s.reg = e.s.reg => f = e
    /\ \A b \in BufIds :
          LET h0     == Dropped(b)
              r      == Release(bufs[b], pools, heap)
              h1     == Collect(heap, Roots([bufs EXCEPT ![b] = r.buf],
                                            r.pools, held, loc,
                                            [ext EXCEPT ![b] = NoExt]))
              others == OtherRegions(b)
          IN  /\ bufs[b].data.reg \notin PoolRegions(pools)
              /\ bufs[b].data.reg \notin others
              /\ \A size \in NewSizes \cup {1, 4} :
                    \A pick \in (IF GetIdx(size) = -1 THEN {NilSlice}
                                 ELSE PoolPicks(pools, GetIdx(size))) :
                       LET c == NewSize(pools, h0, size, pick)
                       IN  ((pick = NilSlice /\ size > 0) => HasRoom(h0)) =>
                              c.buf.data.reg \notin
                                 PoolRegions(c.pools) \cup others
              /\ bufs[b].live =>
                    \A w \in Stores(bufs[b], heap) :
                       /\ w.buf.data.reg \notin PoolRegions(pools) \cup others
                       /\ \A g \in PoolRegions(pools) \cup others :
                             w.heap[g] = heap[g]
              /\ bufs[b].live =>
                    /\ r.buf = ZeroBuffer
                    /\ r.buf.data = NilSlice
                    /\ bufs[b].pooled =>
                          bufs[b].data.reg \in PoolRegions(r.pools)
                    /\ PoolRegions(r.pools) \cap others = {}
                    /\ \A e \in BagToSet(r.pools) : CopiesIn(e, r.pools) = 1
                    /\ Loads(r.buf, h1) = {<<>>}
                    /\ \A n \in -1..MaxLen : To(r.buf, n).out = NilSlice
                    /\ \A w \in Stores(r.buf, h1) :
                          /\ w.buf.data.reg \notin
                                PoolRegions(r.pools) \cup others
                          /\ \A g \in PoolRegions(r.pools) \cup others :
                                w.heap[g] = h1[g]

\* an array has gone from one buffer to the other through the pool: buffer
\* 1 holds the zero Buffer after its Release, and buffer 2 is pool-owned
\* and holds, behind the bytes it wrote itself, a byte that buffer 1 wrote
C19_Witness ==
    /\ bufs[1] = ZeroBuffer
    /\ bufs[2].pooled
    /\ pending[2] # <<>>
    /\ PoolRegions(pools) = {}
    /\ \E i \in DOMAIN heap[bufs[2].data.reg].mem :
          /\ heap[bufs[2].data.reg].mem[i] # 0
          /\ \A j \in DOMAIN pending[2] :
                pending[2][j] # heap[bufs[2].data.reg].mem[i]

\* C20: a pool-owned buffer grows in place up to the capacity of its
\* class.  For a buffer that NewSize made from an array of the pool, of
\* capacity c, a Write after which the content is no longer than c does
\* not reallocate: the buffer keeps its array and stays pool-owned.
C20_GrowInPlace ==
    LET b == bufs[1]
        c == SliceCap(heap, b.data)
    IN  (b.live /\ b.pooled) =>
           \A n \in 0..MaxLen :
              BLen(b) + n <= c =>
                 LET r == Write(b, heap, Payload(n))
                 IN  /\ r.how # "realloc"
                     /\ r.buf.pooled
                     /\ r.buf.data.reg = b.data.reg

\* the buffer of NewSize(3), whose array has capacity 4, has been written
\* four bytes: they lie in an array of six that grow allocated at the
\* fourth byte, and the buffer is no longer pool-owned
C20_Witness ==
    /\ bufs[1].live
    /\ ~bufs[1].pooled
    /\ pending[1] = <<1, 2, 3, 4>>
    /\ bufs[1].start = 0
    /\ bufs[1].end = 4
    /\ bufs[1].data.len = 6
    /\ SliceCap(heap, bufs[1].data) = 6

\* the bytes that the read paths of buffer b return with memory h: those of
\* Bytes, Read, ReadByte and ReadBytes, and those behind the slice of To
Returned(b, h) ==
    Loads(b, h) \cup {View(h, To(b, n).out) : n \in -1..MaxLen}

\* C21: no read path returns a byte that a previous holder left in an
\* array of the pool.  A holder that takes a buffer with NewSize and calls
\* Extend has stored nothing itself, so whatever Bytes, Read, ReadByte,
\* ReadBytes and To return from that buffer holds no byte that somebody
\* stored (a byte other than 0), whichever array of the pool NewSize got.
C21_NoStaleBytes ==
    \A size \in {1, 3, 4} :
       \A pick \in PoolPicks(pools, GetIdx(size)) :
          LET h0 == Dropped(1)
              c  == NewSize(pools, h0, size, pick)
          IN  (pick = NilSlice => HasRoom(h0)) =>
                 \A n \in 0..MaxLen :
                    LET e == Extend(c.buf, c.heap, n)
                    IN  (e.how = "realloc" => HasRoom(c.heap)) =>
                           \A v \in Returned(e.buf, e.heap) :
                              \A i \in DOMAIN v : v[i] = 0

\* a buffer that was written the bytes 1 and 2 has been released, and its
\* array lies in the pool: NewSize(3) that gets this array, followed by
\* Extend(2), makes Read, ReadBytes and Bytes return 1 and 2 to the new
\* holder, which stored nothing
C21_Witness ==
    /\ bufs[1] = ZeroBuffer
    /\ nw = 2
    /\ \E pick \in PoolPicks(pools, GetIdx(3)) \ {NilSlice} :
          LET c == NewSize(pools, heap, 3, pick)
              e == Extend(c.buf, c.heap, 2)
          IN  /\ c.buf.pooled
              /\ e.how = "none"
              /\ Read(e.buf, e.heap, 2).val = <<1, 2>>
              /\ ReadBytes(e.buf, e.heap, 2).val = <<1, 2>>
              /\ Bytes(e.buf, e.heap) = <<1, 2>>

\* C22: grow(n) does nothing, compacts, or reallocates, in that order.  For
\* n <= 0, or when Cap - end >= n, neither the buffer nor the memory
\* changes.  Otherwise, with start > 0, the readable bytes are moved to
\* offset 0 of the same array (start = 0, end = Len), and content, Cap,
\* array and pooled flag stay as they were; that is all when the room then
\* suffices.  A new array is allocated only when it does not: grow(n), n > 0,
\* reallocates if and only if Len + n > Cap, and a call that does not
\* reallocate leaves every other array and the buffer's array, flag and
\* content alone.
C22_GrowOrder ==
    LET b == bufs[1]
    IN  b.live =>
           \A n \in -1..(MaxLen + 1) :
              LET g == grow(b, heap, n)
              IN  (g.how = "realloc" => HasRoom(heap)) =>
                     /\ (n <= 0 \/ BCap(b) - b.end >= n) =>
                           (g.how = "none" /\ g.buf = b /\ g.heap = heap)
                     /\ (n > 0 /\ BCap(b) - b.end < n /\ b.start > 0) =>
                           /\ g.how \in {"compact", "realloc"}
                           /\ g.buf.start = 0
                           /\ g.buf.end = BLen(b)
                           /\ Bytes(g.buf, g.heap) = Bytes(b, heap)
                     /\ (n > 0 /\ BCap(b) - b.end < n /\ b.start = 0) =>
                           g.how = "realloc"
                     /\ g.how = "compact" =>
                           /\ g.buf = [b EXCEPT !.start = 0, !.end = BLen(b)]
                           /\ BCap(g.buf) - g.buf.end >= n
                           /\ \A reg \in DOMAIN heap :
                                 reg # b.data.reg => g.heap[reg] = heap[reg]
                     /\ g.how = "realloc" <=> (n > 0 /\ BLen(b) + n > BCap(b))
                     /\ g.how # "realloc" =>
                           /\ g.buf.data = b.data
                           /\ g.buf.pooled = b.pooled
                           /\ BCap(g.buf) = BCap(b)

\* a pool-owned buffer of capacity 3 is full and its first byte has been
\* read: a Write of one byte finds no room behind end, compacts, and stores
\* the byte in the array the buffer had
C22_Witness ==
    /\ bufs[1].pooled
    /\ bufs[1].start = 1
    /\ bufs[1].end = 3
    /\ BCap(bufs[1]) = 3
    /\ grow(bufs[1], heap, 1).how = "compact"
    /\ Write(bufs[1], heap, Payload(1)).buf.data = bufs[1].data
    /\ Bytes(Write(bufs[1], heap, Payload(1)).buf,
             Write(bufs[1], heap, Payload(1)).heap) =
          pending[1] \o Payload(1)

\* C23: when grow(n) reallocates, the new array has capacity
\* max(Len + n, 2 * Cap), which is n for a buffer of capacity 0; it is a new
\* array of exactly that size; the readable bytes are at its front
\* (start = 0, end = the Len of before); the buffer is not pooled; the pools
\* are as they were, so the old array has not been Put; and neither
\* Release after the reallocation nor Release after any further method
\* Puts anything.
C23_Realloc ==
    LET b == bufs[1]
    IN  b.live =>
           \A n \in 1..(MaxLen + 1) :
              LET g  == grow(b, heap, n)
                  h1 == Collect(g.heap,
                                Roots([bufs EXCEPT ![1] = g.buf], pools,
                                      held, loc, [ext EXCEPT ![1] = NoExt]))
              IN  (g.how = "realloc" /\ HasRoom(heap)) =>
                     /\ BCap(g.buf) = IF BLen(b) + n >= 2 * BCap(b)
                                      THEN BLen(b) + n ELSE 2 * BCap(b)
                     /\ BCap(b) = 0 => BCap(g.buf) = n
                     /\ heap[g.buf.data.reg] = Free
                     /\ g.buf.data.reg # b.data.reg
                     /\ g.buf.data.off = 0
                     /\ SliceCap(g.heap, g.buf.data) = BCap(g.buf)
                     /\ g.buf.start = 0
                     /\ g.buf.end = BLen(b)
                     /\ Bytes(g.buf, g.heap) = Bytes(b, heap)
                     /\ ~g.buf.pooled
                     /\ b.data.reg \notin PoolRegions(pools)
                     /\ Release(g.buf, pools, h1).puts = 0
                     /\ Release(g.buf, pools, h1).pools = pools
                     /\ \A a \in AfterMethod(g.buf, h1) :
                           /\ Release(a, pools, h1).puts = 0
                           /\ Release(a, pools, h1).pools = pools

\* a pool-owned buffer holds two unread bytes behind a read one and is
\* full: grow(2) compacts, still lacks room, and allocates an array of
\* 2 * 3 = 6, more than the 4 that Len + n asks for; for the buffer of
\* capacity 0 that Release leaves, grow(2) allocates exactly 2
C23_Witness ==
    /\ bufs[1].pooled
    /\ BCap(bufs[1]) = 3
    /\ bufs[1].start = 1
    /\ bufs[1].end = 3
    /\ grow(bufs[1], heap, 2).how = "realloc"
    /\ BCap(grow(bufs[1], heap, 2).buf) = 6
    /\ HasRoom(heap)
    /\ BCap(grow(ZeroBuffer, heap, 2).buf) = 2

\* C24: a Read, ReadByte or ReadBytes that consumes the last readable byte
\* leaves start = end = 0, and one that leaves bytes unread advances start
\* by the number of bytes it returned and keeps end.  So in every state a
\* buffer with start = end has start = end = 0, and start > 0 means that
\* there are unread bytes; every method keeps this.
C24_CursorReset ==
    LET b == bufs[1]
        reads == {[buf |-> r.buf, k |-> Len(r.val)] :
                     r \in {Read(b, heap, n) : n \in 0..MaxLen}}
                 \cup {[buf |-> r.buf, k |-> Len(r.val)] :
                          r \in {ReadBytes(b, heap, n) : n \in -1..MaxLen}}
                 \cup {[buf |-> ReadByte(b, heap).buf,
                        k   |-> Len(ReadByte(b, heap).val)]}
    IN  b.live =>
           /\ b.start = b.end => (b.start = 0 /\ b.end = 0)
           /\ b.start > 0 => BLen(b) > 0
           /\ \A r \in reads :
                 /\ r.k <= BLen(b)
                 /\ r.k = BLen(b) => (r.buf.start = 0 /\ r.buf.end = 0)
                 /\ r.k < BLen(b) =>
                       (r.buf.start = b.start + r.k /\ r.buf.end = b.end)
                 /\ r.buf.data = b.data
           /\ \A a \in AfterMethod(b, heap) :
                 /\ a.start = a.end => (a.start = 0 /\ a.end = 0)
                 /\ a.start > 0 => BLen(a) > 0

\* two bytes are unread behind a byte that was read: ReadBytes(2), Read
\* into two bytes, and ReadByte after ReadByte take the last byte and leave
\* both cursors at 0, while ReadByte alone leaves start = 2
C24_Witness ==
    /\ bufs[1].start = 1
    /\ bufs[1].end = 3
    /\ ReadBytes(bufs[1], heap, 2).buf.start = 0
    /\ ReadBytes(bufs[1], heap, 2).buf.end = 0
    /\ Read(bufs[1], heap, 2).buf.end = 0
    /\ ReadByte(bufs[1], heap).buf.start = 2
    /\ ReadByte(ReadByte(bufs[1], heap).buf, heap).buf.end = 0

(***************************************************************************)
(* The goroutine that uses the file logger keeps running: a call that has  *)
(* started takes its next step whenever that step is possible.  A step     *)
(* that waits for the mutex (LogWriteLock) is possible only while the      *)
(* mutex is free, as sync.Mutex is not reentrant.                          *)
(***************************************************************************)
LogFairness ==
    /\ WF_vars(LogWriteNoLimit)
    /\ WF_vars(LogWriteLock)
    /\ WF_vars(LogWriteLocked)

SpecLogFair == InitLog /\ [][NextLog]_vars /\ LogFairness

\* C25: every call of SetSizeLimit and of FileLogger.Write returns: a
\* goroutine that is inside a call of the file logger is eventually outside
\* it again.
C25_Returns == (lpc # "idle") ~> (lpc = "idle")

\* SetSizeLimit was called with a limit below the size of the log file:
\* setLimit holds the mutex and has called Noticef("Rotating logfile..."),
\* whose Write has come to fl.Lock(); nothing else has happened to the
\* logger, and no step is possible
C25_Witness ==
    /\ lhist = {"SetSizeLimit"}
    /\ lpc = "write"
    /\ larg = RotatingLen
    /\ mu
    /\ fl.isRotationAllowed = 1
    /\ fl.currentSize > fl.rotationLimit
    /\ fl.rotationLimit = fl.originalRotationLimit
    /\ ~fl.file.closed
    /\ clock = 0
    /\ ~ENABLED NextLog

\* a Write of len bytes on logger f, which the system stores, comes to
\* rotate
RotationDue(f, len) ==
    /\ f.isRotationAllowed # 0
    /\ ~f.file.closed
    /\ f.currentSize + len > f.rotationLimit

\* C26: when a rotation is due and Close of the log file fails, the Write
\* returns the number of bytes of its line with the error of Close, the
\* directory is as it was (no rename, no new file), the clock of the
\* backups has not moved, and the rotation limit is twice what it was.
\* The rotation limit is never below the limit that SetSizeLimit set, and
\* a Write that rotates leaves it at exactly that limit.
C26_CloseFailure ==
    /\ fl.rotationLimit >= fl.originalRotationLimit
    /\ lpc = "locked" =>
          \A o \in Outcomes(larg) :
             LET r == FLWrite(fl, disk, clock, larg, o)
             IN  (o.w = larg /\ RotationDue(fl, larg)) =>
                    /\ ~o.close =>
                          /\ ~r.nested
                          /\ r.n = larg
                          /\ r.err = "close"
                          /\ r.disk.dir = disk.dir
                          /\ r.clock = clock
                          /\ r.fl.rotationLimit = 2 * fl.rotationLimit
                    /\ (~r.nested /\ r.err = "" /\ r.clock # clock) =>
                          r.fl.rotationLimit = r.fl.originalRotationLimit

\* Close has failed in a Write that had to rotate: the limit is doubled,
\* the log file is still the only file of the directory, its handle is
\* closed, and the Write has not returned: logDirect could not write its
\* line to the closed file and has called Noticef with the mutex held
C26_Witness ==
    /\ lpc = "write"
    /\ mu
    /\ larg = ErrorLen
    /\ fl.file.closed
    /\ ~fl.isClosed
    /\ fl.rotationLimit = 2 * fl.originalRotationLimit
    /\ DOMAIN disk.dir = {0}
    /\ clock = 0
    /\ ~ENABLED NextLog

====
